---------------------------- MODULE Spec2Model ----------------------------
(***************************************************************************)
(* Hexuki engine: the bitboard position (core/bitboard.cpp) and the        *)
(* alpha-beta search with iterative deepening (ai/minimax.cpp).            *)
(*                                                                         *)
(* The position is one record `board`; the operators below take a board    *)
(* value and return the board the C++ method leaves behind.                *)
(***************************************************************************)
EXTENDS Integers, Sequences, FiniteSets, TLC

VARIABLES
    board,      \* the HexukiBitboard object
    undo,       \* moves made and not yet unmade, each with the board before it
    start,      \* the board as reset() / loadPosition() left it
    prev,       \* the board before the make that the last unmakeMove matched
    lastOp,     \* the last operation applied to the board
    input,      \* the string the last loadPosition was called with
    made,       \* makeMove calls since reset() / loadPosition()
    peak,       \* the most moves that were outstanding at once since then
    pc,         \* where findBestMove stands: idle, single, id, sd, done
    cfg,        \* the SearchConfig of the call
    elapsed,    \* the last sample of the clock, relative to startTime
    tt,         \* the TranspositionTable of the call
    killers,    \* the KillerMoves of the call
    history,    \* the HistoryTable of the call
    nodesSearched,  \* the node counter alphaBeta increments
    stack,      \* the alphaBeta activations, the innermost last
    retval,     \* what the alphaBeta call that returned last returned
    root,       \* the locals of findBestMove
    result,     \* the SearchResult being filled in
    ghost,      \* what the call did, recorded for the properties
    results     \* the results of the calls that have returned

boardVars == <<board, undo, start, prev, lastOp, input, made, peak>>

searchVars == <<pc, cfg, elapsed, tt, killers, history, nodesSearched, stack,
                retval, root, result, ghost, results>>

vars == <<boardVars, searchVars>>

---------------------------------------------------------------------------
(* Bounds of the model *)

\* makeMove calls in all after the position was set up
MaxMakes == 2

\* the deepest maxDepth of a SearchConfig
MaxDepth == 3

\* findBestMove calls in a row on one board
MaxCalls == 2

\* the nodes one findBestMove call may enter
MaxNodes == 2000

\* how many hashes of one findBestMove call are followed for the positions
\* that probe with them
MaxKeyed == 40

\* probe calls made on a table directly
MaxProbes == 3

\* the empty hexes of a board whose searches are followed to their end
MaxEmpty == 4

---------------------------------------------------------------------------
(* Geometry tables and types of core/bitboard.h, core/move.h *)

NUM_HEXES == 19
MAX_TILE_VALUE == 9
CENTER_HEX == 9
STARTING_TILE == 1
PLAYER_1 == 1
PLAYER_2 == 2

Hexes == 0..(NUM_HEXES - 1)

\* (row, col) of hex h is HEX_POSITIONS[h + 1]
HEX_POSITIONS ==
    << <<0, 2>>, <<1, 1>>, <<1, 3>>, <<2, 0>>, <<2, 2>>, <<2, 4>>, <<3, 1>>,
       <<3, 3>>, <<4, 0>>, <<4, 2>>, <<4, 4>>, <<5, 1>>, <<5, 3>>, <<6, 0>>,
       <<6, 2>>, <<6, 4>>, <<7, 1>>, <<7, 3>>, <<8, 2>> >>

HEX_DIRECTIONS ==
    << <<-2, 0>>, <<2, 0>>, <<-1, -1>>, <<-1, 1>>, <<1, -1>>, <<1, 1>> >>

\* The 15 lines: 5 columns, 5 down-right diagonals, 5 down-left diagonals
CHAIN_STARTERS ==
    << <<3, <<2, 0>> >>, <<1, <<2, 0>> >>, <<0, <<2, 0>> >>, <<2, <<2, 0>> >>,
       <<5, <<2, 0>> >>,
       <<0, <<1, 1>> >>, <<1, <<1, 1>> >>, <<3, <<1, 1>> >>, <<8, <<1, 1>> >>,
       <<13, <<1, 1>> >>,
       <<0, <<1, -1>> >>, <<2, <<1, -1>> >>, <<5, <<1, -1>> >>,
       <<10, <<1, -1>> >>, <<15, <<1, -1>> >> >>

\* Scoring chains: player 1 owns the down-right diagonals, player 2 the
\* down-left diagonals
P1_CHAINS ==
    << <<0, 2, 5>>, <<1, 4, 7, 10>>, <<3, 6, 9, 12, 15>>, <<8, 11, 14, 17>>,
       <<13, 16, 18>> >>

P2_CHAINS ==
    << <<0, 1, 3>>, <<2, 4, 6, 8>>, <<5, 7, 9, 11, 13>>, <<10, 12, 14, 16>>,
       <<15, 17, 18>> >>

Move(h, t) == [hexId |-> h, tileValue |-> t]

Range(s) == {s[i] : i \in DOMAIN s}

\* Move(): the invalid sentinel
NoMove == Move(-1, 0)

MoveIsValid(m) ==
    /\ m.hexId >= 0 /\ m.hexId < NUM_HEXES
    /\ m.tileValue >= 1 /\ m.tileValue <= MAX_TILE_VALUE

---------------------------------------------------------------------------
(* Zobrist keys (core/zobrist.h).  A 64-bit key is named by its index in   *)
(* the key table and a hash is the set of the keys XORed into it an odd    *)
(* number of times: XOR of hashes is symmetric difference.  This is exact  *)
(* as long as no XOR of distinct keys is zero.                             *)

XOR(a, b) == (a \ b) \cup (b \ a)

getTileHash(hexId, tileValue) == {hexId * 10 + tileValue}

getPlayerHash(player) == {1000 + player}

---------------------------------------------------------------------------
(* State queries *)

isHexOccupied(b, hexId) == hexId \in b.hexOccupied

isGameOver(b) ==
    Cardinality({i \in Hexes : isHexOccupied(b, i)}) >= NUM_HEXES

Tiles(b, player) ==
    IF player = PLAYER_1 THEN b.p1AvailableTiles ELSE b.p2AvailableTiles

getAvailableTiles(b, player) == Tiles(b, player)

isTileAvailable(b, player, tileValue) ==
    IF tileValue < 1 \/ tileValue > MAX_TILE_VALUE THEN FALSE
    ELSE \E i \in DOMAIN Tiles(b, player) : Tiles(b, player)[i] = tileValue

\* Zobrist::hash(board): all placed-tile keys and the side-to-move key
ZobristHash(b) ==
    XOR({hexId * 10 + b.hexValues[hexId] : hexId \in b.hexOccupied},
        getPlayerHash(b.currentPlayer))

---------------------------------------------------------------------------
(* Adjacency *)

findHexAt(row, col) ==
    IF row < 0 \/ row >= 9 \/ col < 0 \/ col >= 5 THEN -1
    ELSE IF \E h \in Hexes : HEX_POSITIONS[h + 1] = <<row, col>>
         THEN CHOOSE h \in Hexes : HEX_POSITIONS[h + 1] = <<row, col>>
         ELSE -1

getAdjacentHexes(hexId) ==
    IF hexId < 0 \/ hexId >= NUM_HEXES THEN {}
    ELSE {findHexAt(HEX_POSITIONS[hexId + 1][1] + HEX_DIRECTIONS[i][1],
                    HEX_POSITIONS[hexId + 1][2] + HEX_DIRECTIONS[i][2]) :
              i \in 1..6} \ {-1}

\* the pre-computed neighbour lists
ADJACENT_HEXES == [h \in Hexes |-> getAdjacentHexes(h)]

hasAdjacentOccupied(b, hexId) ==
    IF hexId < 0 \/ hexId >= NUM_HEXES THEN FALSE
    ELSE \E a \in ADJACENT_HEXES[hexId] : isHexOccupied(b, a)

---------------------------------------------------------------------------
(* Chain-length constraint *)

RECURSIVE WalkFrom(_, _)
\* the hexes met from currentHex on, stepping by dir until findHexAt fails
WalkFrom(currentHex, dir) ==
    IF currentHex < 0 THEN <<>>
    ELSE <<currentHex>> \o
         WalkFrom(findHexAt(HEX_POSITIONS[currentHex + 1][1] + dir[1],
                            HEX_POSITIONS[currentHex + 1][2] + dir[2]), dir)

\* the cells each of the 15 walks of checkChainLengthConstraint visits
ChainLines ==
    [i \in 1..15 |-> WalkFrom(CHAIN_STARTERS[i][1], CHAIN_STARTERS[i][2])]

\* a run of length st.cur ended: update max / second max / longest affected
ChainEnded(st) ==
    LET a == IF st.cur > st.maxLength
             THEN [st EXCEPT !.secondMaxLength = st.maxLength,
                             !.maxLength = st.cur]
             ELSE IF st.cur > st.secondMaxLength
                  THEN [st EXCEPT !.secondMaxLength = st.cur]
                  ELSE st
    IN IF st.contains /\ st.cur > a.longestAffected
       THEN [a EXCEPT !.longestAffected = st.cur]
       ELSE a

RECURSIVE WalkChain(_, _, _, _, _)
WalkChain(occ, hexId, line, i, st) ==
    IF i > Len(line)
    THEN \* chain that extends to the edge of the board
         IF st.cur > 0
         THEN [ChainEnded(st) EXCEPT !.cur = 0, !.contains = FALSE]
         ELSE [st EXCEPT !.cur = 0, !.contains = FALSE]
    ELSE IF line[i] \in occ
         THEN WalkChain(occ, hexId, line, i + 1,
                        [st EXCEPT !.cur = st.cur + 1,
                                   !.contains = st.contains \/ line[i] = hexId])
         ELSE IF st.cur > 0
              THEN WalkChain(occ, hexId, line, i + 1,
                             [ChainEnded(st) EXCEPT !.cur = 0,
                                                    !.contains = FALSE])
              ELSE WalkChain(occ, hexId, line, i + 1, st)

RECURSIVE WalkAllChains(_, _, _)
\* the loop over the 15 chain starters; st.starter is its loop variable
WalkAllChains(occ, hexId, st) ==
    IF st.starter > 15 THEN st
    ELSE WalkAllChains(occ, hexId,
             WalkChain(occ, hexId, ChainLines[st.starter], 1,
                       [st EXCEPT !.starter = st.starter + 1]))

RECURSIVE getChainLengthsFromStart(_, _, _, _)
\* the lengths of the runs of occupied hexes on line[i..], currentLength
\* hexes of a run being counted already
getChainLengthsFromStart(b, line, i, currentLength) ==
    IF i > Len(line)
    THEN IF currentLength > 0 THEN <<currentLength>> ELSE <<>>
    ELSE IF isHexOccupied(b, line[i])
    THEN getChainLengthsFromStart(b, line, i + 1, currentLength + 1)
    ELSE IF currentLength > 0
    THEN <<currentLength>> \o getChainLengthsFromStart(b, line, i + 1, 0)
    ELSE getChainLengthsFromStart(b, line, i + 1, 0)

RECURSIVE getAllChainLengths(_, _)
\* the loop over the chain starters from starter i on
getAllChainLengths(b, i) ==
    IF i > 15 THEN <<>>
    ELSE getChainLengthsFromStart(b, ChainLines[i], 1, 0)
         \o getAllChainLengths(b, i + 1)

RECURSIVE getFirstAndSecondChainLengths(_, _, _, _)
\* the loop over allLengths[i..]: <<first, second>> when it ends
getFirstAndSecondChainLengths(allLengths, i, first, second) ==
    IF i > Len(allLengths) THEN <<first, second>>
    ELSE IF allLengths[i] > first
    THEN getFirstAndSecondChainLengths(allLengths, i + 1, allLengths[i], first)
    ELSE IF allLengths[i] > second
    THEN getFirstAndSecondChainLengths(allLengths, i + 1, first, allLengths[i])
    ELSE getFirstAndSecondChainLengths(allLengths, i + 1, first, second)

\* the rule with no chain allowed to be longer than the second longest
ChainRule_NoSlack(st) == ~(st.longestAffected > st.secondMaxLength)

\* the rule: the longest chain through the hex is at most one longer than
\* the second longest chain
ChainRule(st) == ~(st.longestAffected > st.secondMaxLength + 1)

checkChainLengthConstraint(b, hexId) ==
    ChainRule(WalkAllChains(b.hexOccupied \cup {hexId}, hexId,
                            [maxLength |-> 0, secondMaxLength |-> 0,
                             longestAffected |-> 0, cur |-> 0,
                             contains |-> FALSE, starter |-> 1]))

-----
(* Move validation and generation *)

isMoveLegal(b, hexId) ==
    /\ ~isHexOccupied(b, hexId)
    /\ hasAdjacentOccupied(b, hexId)
    /\ checkChainLengthConstraint(b, hexId)

isValidMove(b, move) ==
    /\ MoveIsValid(move)
    /\ isMoveLegal(b, move.hexId)
    /\ isTileAvailable(b, b.currentPlayer, move.tileValue)

\* every tile of tiles[i..] after acc, a value as often as it occurs
uniqueTileValues_All(tiles, i, acc) == acc \o SubSeq(tiles, i, Len(tiles))

RECURSIVE uniqueTileValues(_, _, _)
\* the distinct values of tiles[i..], in order of first occurrence, after acc
uniqueTileValues(tiles, i, acc) ==
    IF i > Len(tiles) THEN acc
    ELSE uniqueTileValues(tiles, i + 1,
             IF \E k \in DOMAIN acc : acc[k] = tiles[i] THEN acc
             ELSE Append(acc, tiles[i]))

\* every hex of legal, in order, paired with every value of u, in order
PairMoves(legal, u) ==
    [k \in 1..(Len(legal) * Len(u)) |->
        Move(legal[((k - 1) \div Len(u)) + 1], u[((k - 1) % Len(u)) + 1])]

HexList == [i \in 1..NUM_HEXES |-> i - 1]

getValidMoves(b) ==
    PairMoves(SelectSeq(HexList,
                        LAMBDA h : ~isHexOccupied(b, h) /\ isMoveLegal(b, h)),
              uniqueTileValues(Tiles(b, b.currentPlayer), 1, <<>>))

---------------------------------------------------------------------------
(* The board the legality queries leave.  They are const methods, but      *)
(* checkChainLengthConstraint writes to the board through a const_cast.    *)

\* checkChainLengthConstraint that does not restore what it saved
checkChainLengthConstraintLeaves_NoRestore(b, hexId) ==
    [b EXCEPT !.hexOccupied = @ \cup {hexId}, !.hexValues[hexId] = 1]

checkChainLengthConstraintLeaves(b, hexId) ==
    LET savedValue == b.hexValues[hexId]
        savedOccupied == b.hexOccupied
        placed == [b EXCEPT !.hexOccupied = @ \cup {hexId},
                            !.hexValues[hexId] = 1]
    IN [placed EXCEPT !.hexValues[hexId] = savedValue,
                      !.hexOccupied = savedOccupied]

isMoveLegalLeaves(b, hexId) ==
    IF isHexOccupied(b, hexId) \/ ~hasAdjacentOccupied(b, hexId) THEN b
    ELSE checkChainLengthConstraintLeaves(b, hexId)

RECURSIVE getValidMovesLeaves(_, _)
\* the hex loop of getValidMoves from hexId on
getValidMovesLeaves(b, hexId) ==
    IF hexId >= NUM_HEXES THEN b
    ELSE getValidMovesLeaves(IF isHexOccupied(b, hexId) THEN b
                             ELSE isMoveLegalLeaves(b, hexId), hexId + 1)

---------------------------------------------------------------------------
(* Move execution *)

updateZobristHash(b, move) ==
    [b EXCEPT !.zobristHash =
        XOR(XOR(b.zobristHash, getTileHash(move.hexId, move.tileValue)),
            getPlayerHash(b.currentPlayer))]

\* tiles with the first occurrence of v erased (tiles itself if v is absent)
EraseFirst(tiles, v) ==
    IF \E i \in DOMAIN tiles : tiles[i] = v
    THEN LET p == CHOOSE i \in DOMAIN tiles :
                      /\ tiles[i] = v
                      /\ \A j \in 1..(i - 1) : tiles[j] # v
         IN [k \in 1..(Len(tiles) - 1) |->
                IF k < p THEN tiles[k] ELSE tiles[k + 1]]
    ELSE tiles

Opponent(player) == IF player = PLAYER_1 THEN PLAYER_2 ELSE PLAYER_1

SetTiles(b, player, tiles) ==
    IF player = PLAYER_1 THEN [b EXCEPT !.p1AvailableTiles = tiles]
    ELSE [b EXCEPT !.p2AvailableTiles = tiles]

\* makeMove erasing every occurrence of the tile value, not the first one
makeMove_EraseAll(b, move) ==
    LET placed == [b EXCEPT !.hexOccupied = @ \cup {move.hexId},
                            !.hexValues[move.hexId] = move.tileValue]
        taken == SetTiles(placed, b.currentPlayer,
                          SelectSeq(Tiles(b, b.currentPlayer),
                                    LAMBDA t : t # move.tileValue))
        hashed == updateZobristHash(taken, move)
    IN [hashed EXCEPT !.currentPlayer = Opponent(b.currentPlayer)]

\* makeMove that takes the tile and passes the turn without occupying the hex
makeMove_NoPlace(b, move) ==
    LET taken == SetTiles(b, b.currentPlayer,
                          EraseFirst(Tiles(b, b.currentPlayer), move.tileValue))
        hashed == updateZobristHash(taken, move)
    IN [hashed EXCEPT !.currentPlayer = Opponent(b.currentPlayer)]

makeMove(b, move) ==
    LET placed == [b EXCEPT !.hexOccupied = @ \cup {move.hexId},
                            !.hexValues[move.hexId] = move.tileValue]
        taken == SetTiles(placed, b.currentPlayer,
                          EraseFirst(Tiles(b, b.currentPlayer), move.tileValue))
        hashed == updateZobristHash(taken, move)
    IN [hashed EXCEPT !.currentPlayer = Opponent(b.currentPlayer)]

\* unmakeMove updating the hash before it switches the player back
unmakeMove_HashBeforeSwitch(b, move) ==
    LET hashed == updateZobristHash(b, move)
        switched == [hashed EXCEPT !.currentPlayer = Opponent(b.currentPlayer)]
        given == SetTiles(switched, switched.currentPlayer,
                          Append(Tiles(switched, switched.currentPlayer),
                                 move.tileValue))
    IN [given EXCEPT !.hexOccupied = @ \ {move.hexId},
                     !.hexValues[move.hexId] = 0]

unmakeMove(b, move) ==
    LET switched == [b EXCEPT !.currentPlayer = Opponent(b.currentPlayer)]
        hashed == updateZobristHash(switched, move)
        given == SetTiles(hashed, hashed.currentPlayer,
                          Append(Tiles(hashed, hashed.currentPlayer),
                                 move.tileValue))
    IN [given EXCEPT !.hexOccupied = @ \ {move.hexId},
                     !.hexValues[move.hexId] = 0]

---------------------------------------------------------------------------
(* Construction and puzzle setup *)

AllTiles == [i \in 1..MAX_TILE_VALUE |-> i]

EmptyValues == [h \in Hexes |-> 0]

reset ==
    LET b == [hexOccupied |-> {CENTER_HEX},
              hexValues |-> [EmptyValues EXCEPT ![CENTER_HEX] = STARTING_TILE],
              p1AvailableTiles |-> AllTiles,
              p2AvailableTiles |-> AllTiles,
              currentPlayer |-> PLAYER_1,
              zobristHash |-> {}]
    IN [b EXCEPT !.zobristHash = ZobristHash(b)]

clearBoard(b) ==
    LET c == [b EXCEPT !.hexOccupied = {}, !.hexValues = EmptyValues]
    IN [c EXCEPT !.zobristHash = ZobristHash(c)]

setHexValue(b, hexId, tileValue) ==
    IF hexId < 0 \/ hexId >= NUM_HEXES THEN b
    ELSE LET c == [b EXCEPT !.hexOccupied = @ \cup {hexId},
                            !.hexValues[hexId] = tileValue]
         IN [c EXCEPT !.zobristHash = ZobristHash(c)]

removeHexValue(b, hexId) ==
    IF hexId < 0 \/ hexId >= NUM_HEXES THEN b
    ELSE LET c == [b EXCEPT !.hexOccupied = @ \ {hexId},
                            !.hexValues[hexId] = 0]
         IN [c EXCEPT !.zobristHash = ZobristHash(c)]

setAvailableTiles(b, player, tiles) ==
    IF player = PLAYER_1 THEN [b EXCEPT !.p1AvailableTiles = tiles]
    ELSE IF player = PLAYER_2 THEN [b EXCEPT !.p2AvailableTiles = tiles]
    ELSE b

RECURSIVE LoadHexes(_, _, _)
LoadHexes(b, pairs, i) ==
    IF i > Len(pairs) THEN b
    ELSE LoadHexes(setHexValue(b, pairs[i][1], pairs[i][2]), pairs, i + 1)

\* A position string, by its sections: the h pairs, the p1: and p2: lists
\* (<<FALSE, _>> when the section is missing) and the turn
loadPosition(b, position) ==
    LET cleared == [clearBoard(b) EXCEPT !.p1AvailableTiles = AllTiles,
                                         !.p2AvailableTiles = AllTiles,
                                         !.currentPlayer = PLAYER_1]
        withHexes == LoadHexes(cleared, position.h, 1)
        withP1 == IF position.p1[1]
                  THEN setAvailableTiles(withHexes, PLAYER_1, position.p1[2])
                  ELSE withHexes
        withP2 == IF position.p2[1]
                  THEN setAvailableTiles(withP1, PLAYER_2, position.p2[2])
                  ELSE withP1
        withTurn == [withP2 EXCEPT !.currentPlayer = position.turn]
    IN [withTurn EXCEPT !.zobristHash = ZobristHash(withTurn)]

---------------------------------------------------------------------------
(* The position string.  A string is the sequence of its characters. *)

DigitChars == <<"0", "1", "2", "3", "4", "5", "6", "7", "8", "9">>

IsDigit(c) == \E i \in DOMAIN DigitChars : DigitChars[i] = c

DigitValue(c) == (CHOOSE i \in DOMAIN DigitChars : DigitChars[i] = c) - 1

RECURSIVE IntToString(_)

\* operator<< of an int that keeps only the last digit
IntToString_LastDigit(n) == <<DigitChars[(n % 10) + 1]>>

\* operator<<(std::ostream&, int): the decimal digits, a minus sign first
IntToString(n) ==
    IF n < 0 THEN <<"-">> \o IntToString(-n)
    ELSE IF n < 10 THEN <<DigitChars[n + 1]>>
    ELSE IntToString(n \div 10) \o <<DigitChars[(n % 10) + 1]>>

RECURSIVE SaveHexes(_, _, _)
\* the hex loop of savePosition from hexId on
SaveHexes(b, hexId, firstHex) ==
    IF hexId >= NUM_HEXES THEN <<>>
    ELSE IF isHexOccupied(b, hexId)
    THEN (IF firstHex THEN <<>> ELSE <<",">>)
         \o <<"h">> \o IntToString(hexId) \o <<":">>
         \o IntToString(b.hexValues[hexId])
         \o SaveHexes(b, hexId + 1, FALSE)
    ELSE SaveHexes(b, hexId + 1, firstHex)

RECURSIVE SaveTiles(_, _)
\* a tile loop of savePosition from tiles[i] on
SaveTiles(tiles, i) ==
    IF i > Len(tiles) THEN <<>>
    ELSE (IF i > 1 THEN <<",">> ELSE <<>>) \o IntToString(tiles[i])
         \o SaveTiles(tiles, i + 1)

savePosition(b) ==
    SaveHexes(b, 0, TRUE)
    \o <<"|", "p", "1", ":">> \o SaveTiles(getAvailableTiles(b, PLAYER_1), 1)
    \o <<"|", "p", "2", ":">> \o SaveTiles(getAvailableTiles(b, PLAYER_2), 1)
    \o <<"|", "t", "u", "r", "n", ":">> \o IntToString(b.currentPlayer)

RECURSIVE GetLines(_, _, _, _, _)
\* std::getline(stream, token, delim) until it fails: the tokens of str from
\* str[i] on, cur being the token under way (started tells whether any
\* character, the delimiter included, was read for it)
GetLines(str, delim, i, cur, started) ==
    IF i > Len(str) THEN (IF started THEN <<cur>> ELSE <<>>)
    ELSE IF str[i] = delim
    THEN <<cur>> \o GetLines(str, delim, i + 1, <<>>, FALSE)
    ELSE GetLines(str, delim, i + 1, Append(cur, str[i]), TRUE)

\* std::string::substr(pos, count), pos counted from 0; a count of -1 is
\* npos, the default, and any count below 0 a size_t that wrapped around:
\* both are past every end
substr(str, pos, count) ==
    SubSeq(str, pos + 1, IF count < 0 \/ pos + count > Len(str) THEN Len(str)
                         ELSE pos + count)

\* std::string::find(c): the first index, from 0, or Len(str) for npos
find(str, c) ==
    IF \E i \in DOMAIN str : str[i] = c
    THEN (CHOOSE i \in DOMAIN str :
             str[i] = c /\ \A j \in 1..(i - 1) : str[j] # c) - 1
    ELSE Len(str)

RECURSIVE stoiDigits(_, _, _)
\* the number the digits from str[i] on spell, up to the first non-digit
stoiDigits(str, i, acc) ==
    IF i > Len(str) \/ ~IsDigit(str[i]) THEN acc
    ELSE stoiDigits(str, i + 1, acc * 10 + DigitValue(str[i]))

\* where the digits start: after a sign, if there is one
stoiStart(str) == IF str # <<>> /\ str[1] \in {"-", "+"} THEN 2 ELSE 1

\* std::stoi throws std::invalid_argument: no digit where one must be
stoiThrows(str) ==
    stoiStart(str) > Len(str) \/ ~IsDigit(str[stoiStart(str)])

\* std::stoi(str) when it does not throw (no white space is skipped: the
\* strings here hold none)
stoi(str) ==
    IF str[1] = "-" THEN -stoiDigits(str, 2, 0)
    ELSE stoiDigits(str, stoiStart(str), 0)

\* loadPosition while it parses is the board and whether a std::stoi threw,
\* which ends loadPosition there and then
\* the body of the hex-pair loop for one token
LoadHexPair(ld, hexPair) ==
    IF ld.threw \/ Len(hexPair) < 4 THEN ld
    ELSE LET colonPos == find(hexPair, ":")
             hexStr == substr(hexPair, 1, colonPos - 1)
             tileStr == substr(hexPair, colonPos + 1, -1)
         IN IF colonPos = Len(hexPair) THEN ld
            ELSE IF stoiThrows(hexStr) \/ stoiThrows(tileStr)
            THEN [board |-> ld.board, threw |-> TRUE]
            ELSE [board |-> setHexValue(ld.board, stoi(hexStr),
                                        stoi(tileStr)),
                  threw |-> FALSE]

RECURSIVE LoadHexPairs(_, _, _)
LoadHexPairs(ld, hexPairs, i) ==
    IF i > Len(hexPairs) THEN ld
    ELSE LoadHexPairs(LoadHexPair(ld, hexPairs[i]), hexPairs, i + 1)

\* the tiles a p1: or p2: section lists, while no token makes stoi throw
LoadTiles(tileStrs) ==
    [threw |-> \E i \in DOMAIN tileStrs : stoiThrows(tileStrs[i]),
     tiles |-> [i \in DOMAIN tileStrs |->
                  IF stoiThrows(tileStrs[i]) THEN 0 ELSE stoi(tileStrs[i])]]

\* a p1: or p2: section: setAvailableTiles unless a token made stoi throw
LoadBag(ld, player, parsed) ==
    IF parsed.threw THEN [board |-> ld.board, threw |-> TRUE]
    ELSE [board |-> setAvailableTiles(ld.board, player, parsed.tiles),
          threw |-> FALSE]

\* the body of the section loop for one section
LoadSection(ld, section) ==
    IF ld.threw \/ section = <<>> THEN ld
    ELSE IF section[1] = "h"
    THEN LoadHexPairs(ld, GetLines(section, ",", 1, <<>>, FALSE), 1)
    ELSE IF substr(section, 0, 3) = <<"p", "1", ":">>
    THEN LoadBag(ld, PLAYER_1,
                 LoadTiles(GetLines(substr(section, 3, -1), ",", 1, <<>>,
                                    FALSE)))
    ELSE IF substr(section, 0, 3) = <<"p", "2", ":">>
    THEN LoadBag(ld, PLAYER_2,
                 LoadTiles(GetLines(substr(section, 3, -1), ",", 1, <<>>,
                                    FALSE)))
    ELSE IF substr(section, 0, 5) = <<"t", "u", "r", "n", ":">>
    THEN IF stoiThrows(substr(section, 5, -1))
         THEN [board |-> ld.board, threw |-> TRUE]
         ELSE [board |-> [ld.board EXCEPT
                            !.currentPlayer = stoi(substr(section, 5, -1))],
               threw |-> FALSE]
    ELSE ld

RECURSIVE LoadSections(_, _, _)
LoadSections(ld, sections, i) ==
    IF i > Len(sections) THEN ld
    ELSE LoadSections(LoadSection(ld, sections[i]), sections, i + 1)

\* loadPosition(const std::string&): the board it leaves
loadPositionString(b, str) ==
    LET cleared == [clearBoard(b) EXCEPT !.p1AvailableTiles = AllTiles,
                                         !.p2AvailableTiles = AllTiles,
                                         !.currentPlayer = PLAYER_1]
        ld == LoadSections([board |-> cleared, threw |-> FALSE],
                           GetLines(str, "|", 1, <<>>, FALSE), 1)
    IN IF ld.threw THEN ld.board
       ELSE [ld.board EXCEPT !.zobristHash = ZobristHash(ld.board)]

\* loadPosition(const std::string&) is left by an exception of std::stoi
loadPositionThrows(b, str) ==
    LoadSections([board |-> clearBoard(b), threw |-> FALSE],
                 GetLines(str, "|", 1, <<>>, FALSE), 1).threw

---------------------------------------------------------------------------
(* Scoring *)

RECURSIVE calculateChainScore(_, _, _)
\* the product of the values on the occupied hexes of chain[i..]
calculateChainScore(b, chain, i) ==
    IF i > Len(chain) THEN 1
    ELSE (IF isHexOccupied(b, chain[i]) THEN b.hexValues[chain[i]] ELSE 1)
         * calculateChainScore(b, chain, i + 1)

RECURSIVE SumChains(_, _, _)
SumChains(b, chains, i) ==
    IF i > Len(chains) THEN 0
    ELSE calculateChainScore(b, chains[i], 1) + SumChains(b, chains, i + 1)

calculatePlayerScore(b, player) ==
    IF player = PLAYER_1 THEN SumChains(b, P1_CHAINS, 1)
    ELSE SumChains(b, P2_CHAINS, 1)

getScore(b, player) == calculatePlayerScore(b, player)

---------------------------------------------------------------------------
(* ai/minimax.cpp: constants, transposition table, evaluation, ordering *)

INF == 1000000
MATE_SCORE == 900000
TIMEOUT_CHECK_INTERVAL == 1000
MAX_DEPTH == 50
DefaultTimeLimitMs == 30000

Max(a, b) == IF a > b THEN a ELSE b
Min(a, b) == IF a < b THEN a ELSE b
Abs(a) == IF a < 0 THEN -a ELSE a

TTEntry(score, depth, flag, bestMove) ==
    [score |-> score, depth |-> depth, flag |-> flag, bestMove |-> bestMove]

\* TranspositionTable(sizeMB): an empty map and both counters 0
NewTable == [table |-> <<>>, hits |-> 0, misses |-> 0]

\* store that overwrites whatever is there
store_AlwaysReplace(t, hash, entry) ==
    IF hash \in DOMAIN t.table
    THEN [t EXCEPT !.table[hash] = entry]
    ELSE [t EXCEPT !.table = (hash :> entry) @@ t.table]

\* TranspositionTable::store
store(t, hash, entry) ==
    IF hash \in DOMAIN t.table
    THEN IF entry.depth >= t.table[hash].depth
         THEN [t EXCEPT !.table[hash] = entry]
         ELSE t
    ELSE [t EXCEPT !.table = (hash :> entry) @@ t.table]

\* TranspositionTable::probe: whether found, the entry, the table afterwards
probe(t, hash) ==
    IF hash \in DOMAIN t.table
    THEN [found |-> TRUE, entry |-> t.table[hash],
          tt |-> [t EXCEPT !.hits = t.hits + 1]]
    ELSE [found |-> FALSE, entry |-> TTEntry(0, 0, "EXACT", NoMove),
          tt |-> [t EXCEPT !.misses = t.misses + 1]]

\* evaluate from the side of player 1 whoever is to move
evaluate_Player1View(b) ==
    getScore(b, PLAYER_1) - getScore(b, PLAYER_2)

evaluate(b) ==
    IF b.currentPlayer = PLAYER_1
    THEN getScore(b, PLAYER_1) - getScore(b, PLAYER_2)
    ELSE getScore(b, PLAYER_2) - getScore(b, PLAYER_1)

\* KillerMoves()
NewKillers ==
    [killer1 |-> [i \in 0..(MAX_DEPTH - 1) |-> NoMove],
     killer2 |-> [i \in 0..(MAX_DEPTH - 1) |-> NoMove]]

\* update that forgets the first killer instead of shifting it
killersUpdate_NoShift(k, ply, move) ==
    IF ply < 0 \/ ply >= MAX_DEPTH THEN k
    ELSE [k EXCEPT !.killer1[ply] = move]

\* KillerMoves::update
killersUpdate(k, ply, move) ==
    IF ply < 0 \/ ply >= MAX_DEPTH THEN k
    ELSE IF move # k.killer1[ply]
         THEN [k EXCEPT !.killer2[ply] = k.killer1[ply],
                        !.killer1[ply] = move]
         ELSE k

\* KillerMoves::isKiller
isKiller(k, ply, move) ==
    IF ply < 0 \/ ply >= MAX_DEPTH THEN FALSE
    ELSE move = k.killer1[ply] \/ move = k.killer2[ply]

\* HistoryTable()
NewHistory == [h \in Hexes |-> [t \in 0..9 |-> 0]]

\* HistoryTable::update
historyUpdate(hist, move, depth) ==
    IF /\ move.hexId >= 0 /\ move.hexId < NUM_HEXES
       /\ move.tileValue >= 0 /\ move.tileValue < 10
    THEN [hist EXCEPT ![move.hexId][move.tileValue] = @ + depth * depth]
    ELSE hist

\* HistoryTable::getScore
historyScore(hist, move) ==
    IF /\ move.hexId >= 0 /\ move.hexId < NUM_HEXES
       /\ move.tileValue >= 0 /\ move.tileValue < 10
    THEN hist[move.hexId][move.tileValue]
    ELSE 0

\* no TT entry: the nullptr orderMoves is given
NoEntry == [none |-> TRUE]

\* the score orderMoves gives a move
orderScore(move, ttEntry, k, hist, ply) ==
    IF ttEntry # NoEntry /\ move = ttEntry.bestMove THEN 10000000
    ELSE IF isKiller(k, ply, move) THEN 1000000 + move.tileValue * 10
    ELSE historyScore(hist, move) + move.tileValue * 100
         + (IF move.hexId = 9 THEN 50
            ELSE IF move.hexId \in {4, 6, 7, 11, 12} THEN 30 ELSE 0)
         + (IF move.hexId \in {0, 2, 16, 18} THEN 20 ELSE 0)

\* std::sort by descending score.  The order it leaves equal scores in is
\* not specified; it is taken as the order of an insertion sort, which keeps
\* them in their order in the list.
MaxOf(S) == CHOOSE x \in S : \A y \in S : y <= x

\* the pairs of the score m, in their order in pairs
PairsOfScore(pairs, m) == SelectSeq(pairs, LAMBDA p : p[1] = m)

RECURSIVE SortPairs(_, _)
\* the pairs <<score, move>> whose score is in scores, highest score first,
\* equal scores in their order in pairs
SortPairs(pairs, scores) ==
    IF scores = {} THEN <<>>
    ELSE PairsOfScore(pairs, MaxOf(scores))
         \o SortPairs(pairs, scores \ {MaxOf(scores)})

Second(pairs) == [i \in 1..Len(pairs) |-> pairs[i][2]]

SortDescending(moves, sc) ==
    Second(SortPairs([i \in DOMAIN moves |-> <<sc[i], moves[i]>>],
                     Range(sc)))

orderMoves(moves, ttEntry, k, hist, ply) ==
    SortDescending(moves,
        [i \in DOMAIN moves |-> orderScore(moves[i], ttEntry, k, hist, ply)])

---------------------------------------------------------------------------
(* alphaBeta: one activation is a frame of the stack.  A frame is entered  *)
(* (phase "enter"), and either returns at once or makes its first move and *)
(* calls its child; when the child has returned the frame is resumed       *)
(* (phase "loop") with the child's value in retval.                        *)

EnterFrame(depth, alpha, beta, ply) ==
    [phase |-> "enter", depth |-> depth, alpha |-> alpha, beta |-> beta,
     ply |-> ply, hash |-> {}, moves |-> <<>>, idx |-> 0, bestScore |-> 0,
     bestMove |-> NoMove, flag |-> "EXACT"]

Returned(value, t, timedOut) ==
    [ret |-> TRUE, value |-> value, tt |-> t, timedOut |-> timedOut,
     frame |-> EnterFrame(0, 0, 0, 0)]

\* alphaBeta at the head of its move loop, the moves ordered
alphaBetaLoopHead(f, t, alpha, beta, hash, ordered) ==
    [ret |-> FALSE, value |-> 0, tt |-> t, timedOut |-> FALSE,
     frame |-> [f EXCEPT !.phase = "loop", !.alpha = alpha, !.beta = beta,
                         !.hash = hash, !.moves = ordered, !.idx = 1,
                         !.bestScore = -INF, !.bestMove = ordered[1],
                         !.flag = "UPPER_BOUND"]]

\* alphaBeta from getValidMoves on
alphaBetaMoves(b, f, t, ttValid, entry, alpha, beta, k, hist, moves) ==
    IF moves = <<>>
    THEN Returned(evaluate(b), t, FALSE)
    ELSE alphaBetaLoopHead(f, t, alpha, beta, b.zobristHash,
             orderMoves(moves, IF ttValid THEN entry ELSE NoEntry, k, hist,
                        f.ply))

\* alphaBeta taking any entry the probe finds as usable
alphaBetaProbed_AnyDepth(b, f, pr, k, hist) ==
    LET ttValid == pr.found
        alpha == IF ttValid /\ pr.entry.flag = "LOWER_BOUND"
                 THEN Max(f.alpha, pr.entry.score) ELSE f.alpha
        beta == IF ttValid /\ pr.entry.flag = "UPPER_BOUND"
                THEN Min(f.beta, pr.entry.score) ELSE f.beta
    IN
    IF ttValid /\ pr.entry.flag = "EXACT"
    THEN Returned(pr.entry.score, pr.tt, FALSE)
    ELSE IF ttValid /\ alpha >= beta
    THEN Returned(pr.entry.score, pr.tt, FALSE)
    ELSE alphaBetaMoves(b, f, pr.tt, ttValid, pr.entry, alpha, beta, k, hist,
                        getValidMoves(b))

\* alphaBeta from the result pr of the table probe on
alphaBetaProbed(b, f, pr, k, hist) ==
    LET ttValid == pr.found /\ pr.entry.depth >= f.depth
        alpha == IF ttValid /\ pr.entry.flag = "LOWER_BOUND"
                 THEN Max(f.alpha, pr.entry.score) ELSE f.alpha
        beta == IF ttValid /\ pr.entry.flag = "UPPER_BOUND"
                THEN Min(f.beta, pr.entry.score) ELSE f.beta
    IN
    IF ttValid /\ pr.entry.flag = "EXACT"
    THEN Returned(pr.entry.score, pr.tt, FALSE)
    ELSE IF ttValid /\ alpha >= beta
    THEN Returned(pr.entry.score, pr.tt, FALSE)
    ELSE alphaBetaMoves(b, f, pr.tt, ttValid, pr.entry, alpha, beta, k, hist,
                        getValidMoves(b))

\* alphaBeta from its entry to its first return or to the head of the move
\* loop: n is nodesSearched after the increment, now the clock if sampled
alphaBetaEntry(b, f, t, k, hist, n, now, timeLimitMs) ==
    IF n % TIMEOUT_CHECK_INTERVAL = 0 /\ now >= timeLimitMs
    THEN Returned(0, t, TRUE)
    ELSE IF f.depth = 0 \/ isGameOver(b)
    THEN Returned(evaluate(b), t, FALSE)
    ELSE alphaBetaProbed(b, f, probe(t, b.zobristHash), k, hist)

\* the body of the move loop after the recursive call returned childValue:
\* the frame with the score taken in, and whether the loop breaks
\* the beta cutoff test at the end of the loop body
alphaBetaCutoff(g) ==
    IF g.alpha >= g.beta
    THEN [frame |-> [g EXCEPT !.flag = "LOWER_BOUND"], cutoff |-> TRUE]
    ELSE [frame |-> g, cutoff |-> FALSE]

alphaBetaScored(f, childValue) ==
    LET score == -childValue
        move == f.moves[f.idx]
        better == score > f.bestScore
        raised == better /\ score > f.alpha
    IN alphaBetaCutoff(
           [f EXCEPT !.bestScore = IF better THEN score ELSE @,
                     !.bestMove = IF better THEN move ELSE @,
                     !.alpha = IF raised THEN score ELSE @,
                     !.flag = IF raised THEN "EXACT" ELSE @])

---------------------------------------------------------------------------
(* Position strings the board is loaded from *)

Position(h, p1, p2, turn) ==
    [h |-> h, p1 |-> <<TRUE, p1>>, p2 |-> <<TRUE, p2>>, turn |-> turn]

Positions ==
    { Position(<< <<9, 1>> >>, <<1, 2>>, <<1, 2>>, 1),
      Position(<< <<9, 1>> >>, <<7>>, <<4, 4>>, 1),
      Position(<<>>, <<1>>, <<>>, 2),
      Position(<< <<9, 1>> >>, <<1, 2, 2, 1>>, <<3, 3>>, 1),
      Position(<< <<4, 2>>, <<9, 1>>, <<14, 3>> >>, <<3, 1>>, <<2, 2, 5>>, 2),
      Position(<< <<1, 1>>, <<2, 2>>, <<4, 1>>, <<7, 3>>, <<9, 1>>, <<11, 2>>,
                  <<14, 1>>, <<16, 1>> >>, <<2>>, <<3>>, 1) }

\* hexes 0 .. n-1 hold a 1
Filled(n) == [i \in 1..n |-> <<i - 1, 1>>]

\* all of the board but hex 18 holds a 1
AllButLast == Filled(NUM_HEXES - 1)

\* four hexes left, and each side holds a 2 and a 1
FourLeft ==
    << <<3, 2>>, <<5, 3>>, <<6, 1>>, <<7, 2>>, <<8, 3>>, <<9, 1>>, <<10, 2>>,
       <<11, 3>>, <<12, 1>>, <<13, 2>>, <<14, 3>>, <<15, 1>>, <<16, 2>>,
       <<17, 3>>, <<18, 1>> >>

SearchPositions ==
    { Position(<< <<9, 1>> >>, <<1, 2>>, <<1, 2>>, 1),
      Position(AllButLast, <<1, 2, 2, 1>>, <<>>, 1),
      Position(AllButLast, <<1>>, <<>>, 1),
      Position([AllButLast EXCEPT ![14] = <<13, 3>>], <<2>>, <<>>, 1),
      Position(Filled(11), <<1, 2, 3, 4>>, <<1, 2, 3, 4>>, 1),
      Position(FourLeft, <<2, 1>>, <<2, 1>>, 2),
      Position(FourLeft, <<>>, <<2, 1>>, 1),
      Position(<< <<9, 1>> >>, <<>>, <<1>>, 1) }

---------------------------------------------------------------------------
(* The board under make / unmake *)

\* the multiset of a bag: how often each value occurs
BagOf(tiles) ==
    [v \in 0..MAX_TILE_VALUE |->
        Cardinality({i \in DOMAIN tiles : tiles[i] = v})]

\* equal in occupancy, values, side, hash and the multisets of both bags
SamePosition(a, b) ==
    /\ a.hexOccupied = b.hexOccupied
    /\ a.hexValues = b.hexValues
    /\ a.currentPlayer = b.currentPlayer
    /\ a.zobristHash = b.zobristHash
    /\ BagOf(a.p1AvailableTiles) = BagOf(b.p1AvailableTiles)
    /\ BagOf(a.p2AvailableTiles) = BagOf(b.p2AvailableTiles)


---------------------------------------------------------------------------
(* findBestMove *)

\* SearchResult()
NewResult ==
    [bestMove |-> NoMove, score |-> 0, nodesSearched |-> 0, depth |-> 0,
     timeout |-> FALSE, ttHits |-> 0, ttMisses |-> 0]

NoRoot ==
    [moves |-> <<>>, idx |-> 0, depth |-> 0, alpha |-> -INF,
     currentBestMove |-> NoMove, currentBestScore |-> -INF,
     bestMove |-> NoMove, bestScore |-> -INF]

\* rootBoard: the board findBestMove was called on; abTimedOut: an alphaBeta
\* node returned because the deadline had passed; deadlineHit: some sample
\* of the clock was at or past the deadline; timedOutDepth: the depth whose
\* root loop set depthTimedOut; committed: the move and score each completed
\* depth committed; totalNodes: the nodes entered in this call; keyed: for
\* each hash a node probed the table with, the positions that probed with it;
\* shallowHit: a probe found an entry of less than the node's depth;
\* probes: the nodes of this call that came to the probe statement; call:
\* of the last store, probe or orderMoves called directly, the arguments
\* and what was returned
NewGhost(b) ==
    [rootBoard |-> b, abTimedOut |-> FALSE, deadlineHit |-> FALSE,
     timedOutDepth |-> 0, committed |-> <<>>, totalNodes |-> 0,
     keyed |-> <<>>, shallowHit |-> FALSE, probes |-> 0, call |-> <<>>]

\* the probe of table t by the node of frame f on board b, if it comes to
\* it, finds an entry stored from a shallower search
ShallowProbe(t, b, f) ==
    /\ b.zobristHash \in DOMAIN t.table
    /\ t.table[b.zobristHash].depth < f.depth

\* what of a board makes it a position: occupancy, values, side to move and
\* the multiset of each bag
PositionOf(b) ==
    [hexOccupied |-> b.hexOccupied, hexValues |-> b.hexValues,
     currentPlayer |-> b.currentPlayer,
     p1 |-> BagOf(b.p1AvailableTiles), p2 |-> BagOf(b.p2AvailableTiles)]

\* keyed after the node on board b probed the table; no more than MaxKeyed
\* hashes are followed
KeyedWith(keyed, b) ==
    IF b.zobristHash \in DOMAIN keyed
    THEN [keyed EXCEPT ![b.zobristHash] = @ \cup {PositionOf(b)}]
    ELSE IF Cardinality(DOMAIN keyed) < MaxKeyed
    THEN (b.zobristHash :> {PositionOf(b)}) @@ keyed
    ELSE keyed

\* The clock is steady: a sample is never before the last one.  Only its
\* comparison with the deadline is read, so a sample is 0 (before the
\* deadline) or the deadline itself (at or past it).
ClockSamples(last, timeLimitMs) == {t \in {0, timeLimitMs} : t >= last}

\* SearchConfig; useTranspositionTable is read nowhere in findBestMove or
\* alphaBeta, so it is switched off for one depth and time limit only
Configs ==
    { c \in [maxDepth : 0..MaxDepth, timeLimitMs : {0, DefaultTimeLimitMs},
             useIterativeDeepening : BOOLEAN, useMoveOrdering : BOOLEAN,
             useTranspositionTable : BOOLEAN] :
        \/ c.useTranspositionTable
        \/ c.maxDepth = 2 /\ c.timeLimitMs = DefaultTimeLimitMs }

Top == stack[Len(stack)]
Pop(st) == SubSeq(st, 1, Len(st) - 1)
ReplaceTop(st, f) == [st EXCEPT ![Len(st)] = f]

Searching == pc \in {"single", "id", "sd"}

playVars == <<undo, start, prev, lastOp, input, made, peak>>

InitSearch ==
    /\ board \in {reset} \cup {loadPosition(reset, p) : p \in SearchPositions}
    /\ undo = <<>> /\ start = board /\ prev = board /\ lastOp = "load"
    /\ input = <<>>
    /\ made = 0 /\ peak = 0
    /\ pc = "idle"
    /\ cfg \in Configs
    /\ elapsed = 0
    /\ tt = NewTable
    /\ killers = NewKillers
    /\ history = NewHistory
    /\ nodesSearched = 0
    /\ stack = <<>>
    /\ retval = 0
    /\ root = NoRoot
    /\ result = NewResult
    /\ ghost = NewGhost(board)
    /\ results = <<>>

\* what every entry to findBestMove does before it looks at the moves
Called ==
    /\ \/ pc = "idle"
       \/ pc = "done" /\ Len(results) < MaxCalls /\ elapsed < cfg.timeLimitMs
    /\ elapsed' = 0
    /\ tt' = NewTable
    /\ killers' = NewKillers
    /\ history' = NewHistory
    /\ retval' = 0
    /\ UNCHANGED <<cfg, playVars>>

\* findBestMove returning the best move of the depth under way
Finished_CurrentBest(res, r, t, g) ==
    /\ result' = [res EXCEPT !.bestMove = r.currentBestMove,
                             !.score = r.currentBestScore,
                             !.ttHits = t.hits, !.ttMisses = t.misses]
    /\ root' = r
    /\ ghost' = g
    /\ results' = Append(results, [result |-> result', config |-> cfg,
                                   clean |-> ~g.deadlineHit])
    /\ pc' = "done"

\* findBestMove returning with the counters of the table left out
Finished_NoCounters(res, r, t, g) ==
    /\ result' = [res EXCEPT !.bestMove = r.bestMove, !.score = r.bestScore]
    /\ root' = r
    /\ ghost' = g
    /\ results' = Append(results, [result |-> result', config |-> cfg,
                                   clean |-> ~g.deadlineHit])
    /\ pc' = "done"

\* the return statement at the end of findBestMove
Finished(res, r, t, g) ==
    /\ result' = [res EXCEPT !.bestMove = r.bestMove, !.score = r.bestScore,
                             !.ttHits = t.hits, !.ttMisses = t.misses]
    /\ root' = r
    /\ ghost' = g
    /\ results' = Append(results, [result |-> result', config |-> cfg,
                                   clean |-> ~g.deadlineHit])
    /\ pc' = "done"

\* the root loop with no move to fall back on
RootStart_NoFallback(moves) ==
    [NoRoot EXCEPT !.moves = moves, !.bestMove = NoMove, !.bestScore = -INF]

\* bestMove = moves[0], bestScore = -INF
RootStart(moves) ==
    [NoRoot EXCEPT !.moves = moves, !.bestMove = moves[1], !.bestScore = -INF]

\* the head of one iteration of the iterative-deepening loop, up to the
\* first recursive call
DepthBegun(b, r, depth, moves) ==
    [root |-> [r EXCEPT !.moves = moves, !.idx = 1, !.depth = depth,
                        !.alpha = -INF, !.currentBestMove = NoMove,
                        !.currentBestScore = -INF],
     board |-> makeMove(b, moves[1]),
     frame |-> EnterFrame(depth - 1, -INF, INF, 1)]

\* the iteration of the deepening loop going on to the depth after the next
BeginDepth_SkipDepth(b, r, depth, k, hist) ==
    DepthBegun(b, r, depth + 1, orderMoves(r.moves, NoEntry, k, hist, 0))

BeginDepth(b, r, depth, k, hist) ==
    DepthBegun(b, r, depth,
               IF depth > 1 THEN orderMoves(r.moves, NoEntry, k, hist, 0)
               ELSE r.moves)

\* the no-move return with the score left as SearchResult() set it
FindBestMoveNoMoves_NoScore ==
    /\ Called
    /\ getValidMoves(board) = <<>>
    /\ result' = [NewResult EXCEPT !.bestMove = NoMove]
    /\ ghost' = NewGhost(board)
    /\ results' = Append(results, [result |-> result', config |-> cfg,
                                   clean |-> TRUE])
    /\ pc' = "done"
    /\ root' = NoRoot
    /\ nodesSearched' = 0
    /\ UNCHANGED <<board, stack>>

\* moves.empty(): the sentinel move and the static evaluation, at once
FindBestMoveNoMoves ==
    /\ Called
    /\ getValidMoves(board) = <<>>
    /\ \E score \in {evaluate(board)} :
          result' = [NewResult EXCEPT !.bestMove = NoMove, !.score = score]
    /\ ghost' = NewGhost(board)
    /\ results' = Append(results, [result |-> result', config |-> cfg,
                                   clean |-> TRUE])
    /\ pc' = "done"
    /\ root' = NoRoot
    /\ nodesSearched' = 0
    /\ UNCHANGED <<board, stack>>

FindBestMoveSingle ==
    /\ Called
    /\ \E moves \in {getValidMoves(board)} :
       /\ Len(moves) = 1
       /\ result' = [NewResult EXCEPT !.bestMove = moves[1]]
       /\ root' = [NoRoot EXCEPT !.moves = moves, !.idx = 1]
       /\ board' = makeMove(board, moves[1])
    /\ nodesSearched' = 0
    /\ stack' = <<EnterFrame(cfg.maxDepth - 1, -INF, INF, 0)>>
    /\ ghost' = NewGhost(board)
    /\ pc' = "single"
    /\ UNCHANGED results

FindBestMoveIterative ==
    /\ Called
    /\ cfg.useIterativeDeepening
    /\ \E moves \in {getValidMoves(board)} :
       /\ Len(moves) > 1
       /\ LET r == RootStart(moves) IN
          IF 1 <= cfg.maxDepth
          THEN \E d \in {BeginDepth(board, r, 1, NewKillers, NewHistory)} :
               /\ root' = d.root
               /\ board' = d.board
               /\ stack' = <<d.frame>>
               /\ result' = NewResult
               /\ ghost' = NewGhost(board)
               /\ pc' = "id"
               /\ UNCHANGED results
          ELSE /\ Finished(NewResult, r, NewTable, NewGhost(board))
               /\ UNCHANGED <<board, stack>>
    /\ nodesSearched' = 0

FindBestMoveSingleDepth ==
    /\ Called
    /\ ~cfg.useIterativeDeepening
    /\ \E got \in {getValidMoves(board)} :
       /\ Len(got) > 1
       /\ \E moves \in {IF cfg.useMoveOrdering
                         THEN orderMoves(got, NoEntry, NewKillers, NewHistory, 0)
                         ELSE got} :
          /\ root' = [RootStart(got) EXCEPT !.moves = moves, !.idx = 1]
          /\ board' = makeMove(board, moves[1])
    /\ stack' = <<EnterFrame(cfg.maxDepth - 1, -INF, INF, 1)>>
    /\ nodesSearched' = 0
    /\ result' = NewResult
    /\ ghost' = NewGhost(board)
    /\ pc' = "sd"
    /\ UNCHANGED results

\* alphaBeta is entered: the counter, the deadline, the leaf test, the
\* table, the moves, and the first recursive call
AlphaBetaEnter ==
    /\ Searching
    /\ stack # <<>>
    /\ Top.phase = "enter"
    /\ ghost.totalNodes < MaxNodes
    /\ LET n == nodesSearched + 1 IN
       \E now \in (IF n % TIMEOUT_CHECK_INTERVAL = 0
                   THEN ClockSamples(elapsed, cfg.timeLimitMs)
                   ELSE {elapsed}) :
          \E o \in {alphaBetaEntry(board, Top, tt, killers, history, n, now,
                                    cfg.timeLimitMs)} :
             /\ nodesSearched' = n
             /\ elapsed' = now
             /\ tt' = o.tt
             /\ ghost' = [ghost EXCEPT
                            !.totalNodes = @ + 1,
                            !.probes = IF \/ o.timedOut
                                          \/ Top.depth = 0
                                          \/ isGameOver(board)
                                       THEN @ ELSE @ + 1,
                            !.keyed = IF o.tt # tt THEN KeyedWith(@, board)
                                      ELSE @,
                            !.shallowHit = @ \/ (/\ o.tt # tt
                                                 /\ ShallowProbe(tt, board,
                                                                 Top)),
                            !.abTimedOut = @ \/ o.timedOut,
                            !.deadlineHit = @ \/ o.timedOut]
             /\ IF o.ret
                THEN /\ stack' = Pop(stack)
                     /\ retval' = o.value
                     /\ board' = board
                ELSE /\ stack' = Append(ReplaceTop(stack, o.frame),
                                        EnterFrame(o.frame.depth - 1,
                                                   -o.frame.beta,
                                                   -o.frame.alpha,
                                                   o.frame.ply + 1))
                     /\ retval' = retval
                     /\ board' = makeMove(board, o.frame.moves[1])
    /\ UNCHANGED <<pc, cfg, killers, history, root, result, results, playVars>>

\* the recursive call of the move loop returned: unmake, take the score in,
\* and either call for the next move or store and return
AlphaBetaResume ==
    /\ Searching
    /\ stack # <<>>
    /\ Top.phase = "loop"
    /\ \E s \in {alphaBetaScored(Top, retval)} :
       LET unmade == unmakeMove(board, Top.moves[Top.idx])
           g == s.frame
       IN IF ~s.cutoff /\ g.idx < Len(g.moves)
          THEN /\ board' = makeMove(unmade, g.moves[g.idx + 1])
               /\ stack' = Append(ReplaceTop(stack, [g EXCEPT !.idx = @ + 1]),
                                  EnterFrame(g.depth - 1, -g.beta, -g.alpha,
                                             g.ply + 1))
               /\ UNCHANGED <<tt, killers, history, retval>>
          ELSE /\ board' = unmade
               /\ killers' = IF s.cutoff
                             THEN killersUpdate(killers, g.ply, g.bestMove)
                             ELSE killers
               /\ history' = IF s.cutoff
                             THEN historyUpdate(history, g.bestMove, g.depth)
                             ELSE history
               /\ tt' = store(tt, g.hash,
                              TTEntry(g.bestScore, g.depth, g.flag, g.bestMove))
               /\ stack' = Pop(stack)
               /\ retval' = g.bestScore
    /\ UNCHANGED <<pc, cfg, elapsed, nodesSearched, root, result, ghost,
                   results, playVars>>

\* the single-move path returning with its move still on the board
SingleMoveReturn_NoUnmake ==
    /\ pc = "single"
    /\ stack = <<>>
    /\ board' = board
    /\ result' = [result EXCEPT !.score = -retval, !.depth = cfg.maxDepth,
                                !.nodesSearched = nodesSearched]
    /\ results' = Append(results, [result |-> result', config |-> cfg,
                                   clean |-> ~ghost.deadlineHit])
    /\ pc' = "done"
    /\ UNCHANGED <<cfg, elapsed, tt, killers, history, nodesSearched, stack,
                   retval, root, ghost, playVars>>

\* the single-move path returning the static evaluation of the root
SingleMoveReturn_StaticEval ==
    /\ pc = "single"
    /\ stack = <<>>
    /\ board' = unmakeMove(board, root.moves[1])
    /\ result' = [result EXCEPT !.score = evaluate(board'),
                                !.depth = cfg.maxDepth,
                                !.nodesSearched = nodesSearched]
    /\ results' = Append(results, [result |-> result', config |-> cfg,
                                   clean |-> ~ghost.deadlineHit])
    /\ pc' = "done"
    /\ UNCHANGED <<cfg, elapsed, tt, killers, history, nodesSearched, stack,
                   retval, root, ghost, playVars>>

\* the single-move path after its alphaBeta call returned
SingleMoveReturn ==
    /\ pc = "single"
    /\ stack = <<>>
    /\ board' = unmakeMove(board, root.moves[1])
    /\ result' = [result EXCEPT !.score = -retval, !.depth = cfg.maxDepth,
                                !.nodesSearched = nodesSearched]
    /\ results' = Append(results, [result |-> result', config |-> cfg,
                                   clean |-> ~ghost.deadlineHit])
    /\ pc' = "done"
    /\ UNCHANGED <<cfg, elapsed, tt, killers, history, nodesSearched, stack,
                   retval, root, ghost, playVars>>

\* the iterative-deepening root loop after a root move's call returned
IterativeRootReturn ==
    /\ pc = "id"
    /\ stack = <<>>
    /\ \E now \in ClockSamples(elapsed, cfg.timeLimitMs) :
       LET move == root.moves[root.idx]
           score == -retval
           unmade == unmakeMove(board, move)
           better == score > root.currentBestScore
           r == [root EXCEPT
                   !.currentBestScore = IF better THEN score ELSE @,
                   !.currentBestMove = IF better THEN move ELSE @,
                   !.alpha = IF better /\ score > root.alpha THEN score ELSE @]
           done == [r EXCEPT !.bestMove = r.currentBestMove,
                             !.bestScore = r.currentBestScore]
           res == [result EXCEPT !.depth = root.depth,
                                 !.nodesSearched = @ + nodesSearched]
           g == [ghost EXCEPT
                   !.committed = Append(@, [move |-> r.currentBestMove,
                                            score |-> r.currentBestScore])]
       IN
       /\ elapsed' = now
       /\ IF now >= cfg.timeLimitMs
          THEN \* depthTimedOut: this depth's results are dropped
               /\ board' = unmade
               /\ Finished([result EXCEPT !.timeout = TRUE], root, tt,
                           [ghost EXCEPT !.deadlineHit = TRUE,
                                         !.timedOutDepth = root.depth])
               /\ UNCHANGED <<stack, nodesSearched>>
          ELSE IF root.idx < Len(root.moves)
          THEN /\ board' = makeMove(unmade, root.moves[root.idx + 1])
               /\ root' = [r EXCEPT !.idx = @ + 1]
               /\ stack' = <<EnterFrame(root.depth - 1, -INF, -r.alpha, 1)>>
               /\ UNCHANGED <<pc, result, ghost, results, nodesSearched>>
          ELSE IF Abs(done.bestScore) > MATE_SCORE - 100
                  \/ root.depth + 1 > cfg.maxDepth
          THEN /\ board' = unmade
               /\ Finished(res, done, tt, g)
               /\ UNCHANGED <<stack, nodesSearched>>
          ELSE \E d \in {BeginDepth(unmade, done, root.depth + 1, killers,
                                     history)} :
                  /\ board' = d.board
                  /\ root' = d.root
                  /\ stack' = <<d.frame>>
                  /\ nodesSearched' = 0
                  /\ result' = res
                  /\ ghost' = g
                  /\ UNCHANGED <<pc, results>>
    /\ UNCHANGED <<cfg, tt, killers, history, retval, playVars>>

\* the single-depth root loop after a root move's call returned
SingleDepthRootReturn ==
    /\ pc = "sd"
    /\ stack = <<>>
    /\ LET move == root.moves[root.idx]
           score == -retval
           unmade == unmakeMove(board, move)
           better == score > root.bestScore
           r == [root EXCEPT
                   !.bestScore = IF better THEN score ELSE @,
                   !.bestMove = IF better THEN move ELSE @,
                   !.alpha = IF better /\ score > root.alpha THEN score ELSE @]
       IN IF root.idx < Len(root.moves)
          THEN /\ board' = makeMove(unmade, root.moves[root.idx + 1])
               /\ root' = [r EXCEPT !.idx = @ + 1]
               /\ stack' = <<EnterFrame(cfg.maxDepth - 1, -INF, -r.alpha, 1)>>
               /\ UNCHANGED <<pc, result, ghost, results>>
          ELSE /\ board' = unmade
               /\ Finished([result EXCEPT !.nodesSearched = nodesSearched,
                                          !.depth = cfg.maxDepth],
                           r, tt, ghost)
               /\ UNCHANGED stack
    /\ UNCHANGED <<cfg, elapsed, tt, killers, history, nodesSearched, retval,
                   playVars>>

NextSearch ==
    \/ FindBestMoveNoMoves
    \/ FindBestMoveSingle
    \/ FindBestMoveIterative
    \/ FindBestMoveSingleDepth
    \/ AlphaBetaEnter
    \/ AlphaBetaResume
    \/ SingleMoveReturn
    \/ IterativeRootReturn
    \/ SingleDepthRootReturn

SpecSearch == InitSearch /\ [][NextSearch]_vars

\* The searches of the boards with few empty hexes, which end before
\* MaxNodes nodes whatever the depth is.  findBestMove runs on one thread
\* that is never held up: a step of a call under way that can be taken is
\* taken.  The last two conjuncts are the weak fairness of AlphaBetaEnter
\* and of the root loops' returns with their enabling conditions written out.
SpecTermination ==
    /\ \E empty \in 0..MaxEmpty :
          InitSearch /\ Cardinality(board.hexOccupied) = NUM_HEXES - empty
    /\ [][NextSearch]_vars
    /\ WF_vars(AlphaBetaResume)
    /\ WF_vars(SingleMoveReturn)
    /\ \/ []<>~(/\ Searching /\ stack # <<>> /\ Top.phase = "enter"
                /\ ghost.totalNodes < MaxNodes)
       \/ []<><<AlphaBetaEnter>>_vars
    /\ \/ []<>~(pc \in {"id", "sd"} /\ stack = <<>>)
       \/ []<><<IterativeRootReturn \/ SingleDepthRootReturn>>_vars

---------------------------------------------------------------------------
(* Single-depth searches of one board, the second one with the root moves  *)
(* left in the order of getValidMoves                                      *)

InitOrder ==
    /\ InitSearch
    /\ ~cfg.useIterativeDeepening
    /\ cfg.useMoveOrdering
    /\ cfg.useTranspositionTable
    /\ cfg.timeLimitMs = DefaultTimeLimitMs

\* the caller clears useMoveOrdering in the config of its second call
SwitchMoveOrdering ==
    /\ pc = "done"
    /\ Len(results) = 1
    /\ cfg.useMoveOrdering
    /\ cfg' = [cfg EXCEPT !.useMoveOrdering = FALSE]
    /\ UNCHANGED <<boardVars, pc, elapsed, tt, killers, history,
                   nodesSearched, stack, retval, root, result, ghost, results>>

NextOrder ==
    \/ FindBestMoveNoMoves
    \/ FindBestMoveSingle
    \/ FindBestMoveSingleDepth
    \/ AlphaBetaEnter
    \/ AlphaBetaResume
    \/ SingleMoveReturn
    \/ SingleDepthRootReturn
    \/ SwitchMoveOrdering

SpecOrder == InitOrder /\ [][NextOrder]_vars

---------------------------------------------------------------------------
(* The board played on directly, with no search running *)

IdleSearch ==
    /\ pc = "idle"
    /\ cfg = [maxDepth |-> 0, timeLimitMs |-> DefaultTimeLimitMs,
              useIterativeDeepening |-> TRUE, useMoveOrdering |-> TRUE,
              useTranspositionTable |-> TRUE]
    /\ elapsed = 0
    /\ tt = NewTable
    /\ killers = NewKillers
    /\ history = NewHistory
    /\ nodesSearched = 0
    /\ stack = <<>>
    /\ retval = 0
    /\ root = NoRoot
    /\ result = NewResult
    /\ ghost = NewGhost(reset)
    /\ results = <<>>

InitBoard ==
    /\ board = reset
    /\ undo = <<>>
    /\ start = reset
    /\ prev = reset
    /\ lastOp = "reset"
    /\ input = <<>>
    /\ made = 0
    /\ peak = 0
    /\ IdleSearch

Reset ==
    /\ undo = <<>> /\ made = 0
    /\ lastOp # "reset"
    /\ board' = reset
    /\ start' = reset
    /\ lastOp' = "reset"
    /\ made' = 0
    /\ UNCHANGED <<undo, prev, input, peak, searchVars>>

LoadPosition ==
    /\ undo = <<>> /\ made = 0
    /\ \E position \in Positions :
          /\ board' = loadPosition(board, position)
          /\ start' = loadPosition(board, position)
    /\ lastOp' = "load"
    /\ made' = 0
    /\ UNCHANGED <<undo, prev, input, peak, searchVars>>

\* the bags handed to setAvailableTiles: any values are taken
BagInputs == {<<0, 2>>, <<5, 5>>}

\* puzzle setup: a bag is replaced before play starts
SetAvailableTiles ==
    /\ undo = <<>> /\ made = 0
    /\ lastOp # "tiles"
    /\ \E player \in {PLAYER_1, PLAYER_2}, tiles \in BagInputs :
          /\ board' = setAvailableTiles(board, player, tiles)
          /\ start' = setAvailableTiles(board, player, tiles)
    /\ lastOp' = "tiles"
    /\ UNCHANGED <<undo, prev, input, made, peak, searchVars>>

\* the position is written out by savePosition and read back by
\* loadPosition, at any point of the play; the play is followed no further
\* from the board read back
SaveLoadPosition ==
    /\ lastOp # "saveload"
    /\ \E loaded \in {loadPositionString(board, savePosition(board))} :
          /\ board' = loaded
          /\ start' = loaded
    /\ prev' = board
    /\ undo' = <<>>
    /\ lastOp' = "saveload"
    /\ made' = MaxMakes
    /\ UNCHANGED <<input, peak, searchVars>>

MakeMove ==
    /\ made < MaxMakes
    /\ \E move \in Range(getValidMoves(board)) :
          /\ board' = makeMove(board, move)
          /\ undo' = Append(undo, [move |-> move, before |-> board])
    /\ lastOp' = "make"
    /\ made' = made + 1
    /\ peak' = IF Len(undo) + 1 > peak THEN Len(undo) + 1 ELSE peak
    /\ UNCHANGED <<start, prev, input, searchVars>>

UnmakeMove ==
    /\ undo # <<>>
    /\ board' = unmakeMove(board, undo[Len(undo)].move)
    /\ prev' = undo[Len(undo)].before
    /\ undo' = SubSeq(undo, 1, Len(undo) - 1)
    /\ lastOp' = "unmake"
    /\ UNCHANGED <<start, input, made, peak, searchVars>>

\* one of the legality queries is called, while a move may still be made:
\* checkChainLengthConstraint or isMoveLegal on any hex, isValidMove on any
\* move, or getValidMoves
LegalityQuery ==
    /\ lastOp # "query"
    /\ made < MaxMakes
    /\ board' \in
          {getValidMovesLeaves(board, 0)}
          \cup {checkChainLengthConstraintLeaves(board, hexId) : hexId \in Hexes}
          \cup {isMoveLegalLeaves(board, hexId) : hexId \in Hexes}
          \cup {IF MoveIsValid(Move(hexId, tileValue))
                THEN isMoveLegalLeaves(board, hexId) ELSE board :
                hexId \in Hexes, tileValue \in {0, 1}}
    /\ lastOp' = "query"
    /\ UNCHANGED <<undo, start, prev, input, made, peak, searchVars>>

NextBoard ==
    \/ Reset
    \/ LoadPosition
    \/ SetAvailableTiles
    \/ LegalityQuery
    \/ MakeMove
    \/ UnmakeMove

SpecBoard == InitBoard /\ [][NextBoard]_vars

---------------------------------------------------------------------------
(* Play from a loaded position, with the position saved and loaded again *)

InitPosition ==
    /\ board \in {loadPosition(reset, p) : p \in Positions}
    /\ undo = <<>>
    /\ start = board
    /\ prev = board
    /\ lastOp = "load"
    /\ input = <<>>
    /\ made = 0
    /\ peak = 0
    /\ IdleSearch

NextPosition ==
    \/ SaveLoadPosition
    \/ MakeMove
    \/ UnmakeMove

SpecPosition == InitPosition /\ [][NextPosition]_vars

---------------------------------------------------------------------------
(* The transposition table and orderMoves used directly.  The hashes are   *)
(* those of the positions one move from the board.                         *)

\* orderMoves is called.  std::sort leaves elements that compare equal in an
\* order the standard does not specify: any arrangement of the list with
\* the scores descending is an outcome.  It is called while the table is
\* still as it was made.
OrderMoves ==
    /\ tt = NewTable
    /\ \E moves \in {<<Move(4, 1), Move(6, 1), Move(14, 2)>>,
                      <<Move(0, 1), Move(4, 2), Move(6, 2), Move(7, 1)>>},
          ttEntry \in {NoEntry, TTEntry(0, 1, "EXACT", Move(6, 1))},
          k \in {NewKillers, killersUpdate(NewKillers, 0, Move(7, 1))},
          hist \in {NewHistory, historyUpdate(NewHistory, Move(4, 1), 1)} :
       \E at \in [DOMAIN moves -> DOMAIN moves] :
          /\ \A i, j \in DOMAIN moves : i # j => at[i] # at[j]
          /\ \A i, j \in DOMAIN moves :
                i < j => orderScore(moves[at[i]], ttEntry, k, hist, 0)
                         >= orderScore(moves[at[j]], ttEntry, k, hist, 0)
          /\ ghost' = [ghost EXCEPT
                         !.call = <<moves, ttEntry, k, hist, 0,
                                    [i \in DOMAIN moves |-> moves[at[i]]]>>]
    /\ lastOp' = "order"
    /\ UNCHANGED <<board, undo, start, prev, input, made, peak, pc, cfg,
                   elapsed, tt, killers, history, nodesSearched, stack,
                   retval, root, result, results>>

\* TranspositionTable::store is called
TableStore ==
    /\ \E hash \in {makeMove(board, Move(hexId, 2)).zobristHash :
                       hexId \in {4, 6, 7}},
          entry \in {TTEntry(score, depth, "EXACT", NoMove) :
                       score \in {-7, 7}, depth \in 0..1} :
          /\ tt' = store(tt, hash, entry)
          /\ ghost' = [ghost EXCEPT !.call = <<hash, entry>>]
    /\ lastOp' = "store"
    /\ UNCHANGED <<board, undo, start, prev, input, made, peak, pc, cfg,
                   elapsed, killers, history, nodesSearched, stack, retval,
                   root, result, results>>

\* TranspositionTable::probe is called
TableProbe ==
    /\ tt.hits + tt.misses < MaxProbes
    /\ \E hash \in {makeMove(board, Move(hexId, 2)).zobristHash :
                       hexId \in {4, 6, 7}} :
       \E pr \in {probe(tt, hash)} :
          /\ tt' = pr.tt
          /\ ghost' = [ghost EXCEPT !.call = <<hash, pr.found, pr.entry>>]
    /\ lastOp' = "probe"
    /\ UNCHANGED <<board, undo, start, prev, input, made, peak, pc, cfg,
                   elapsed, killers, history, nodesSearched, stack, retval,
                   root, result, results>>

\* TranspositionTable::clear is called
TableClear ==
    /\ tt # NewTable
    /\ tt' = [tt EXCEPT !.table = <<>>, !.hits = 0, !.misses = 0]
    /\ ghost' = [ghost EXCEPT !.call = <<>>]
    /\ lastOp' = "clear"
    /\ UNCHANGED <<board, undo, start, prev, input, made, peak, pc, cfg,
                   elapsed, killers, history, nodesSearched, stack, retval,
                   root, result, results>>

NextTable ==
    \/ OrderMoves
    \/ TableStore
    \/ TableProbe
    \/ TableClear

SpecTable == InitBoard /\ [][NextTable]_vars

---------------------------------------------------------------------------
(* Puzzle setup: the board is edited hex by hex and loaded from strings,   *)
(* well-formed or not, before it is played on                              *)

\* the strings loadPosition is called with
PositionStrings ==
    {
      \* every section as savePosition writes it: "h9:1,h4:2|p1:1,2|p2:2|turn:2"
      << "h", "9", ":", "1", ",", "h", "4", ":", "2", "|", "p", "1", ":", "1",
         ",", "2", "|", "p", "2", ":", "2", "|", "t", "u", "r", "n", ":", "2" >>,
      \* a pair that is too short and an empty section: "h9:1,h4,h10:3||p1:1,2|p2:3|turn:2"
      << "h", "9", ":", "1", ",", "h", "4", ",", "h", "1", "0", ":", "3", "|",
         "|", "p", "1", ":", "1", ",", "2", "|", "p", "2", ":", "3", "|", "t",
         "u", "r", "n", ":", "2" >>,
      \* a pair with no colon: "h9:1,h10;3,h4:2|p1:2|p2:2,1|turn:1"
      << "h", "9", ":", "1", ",", "h", "1", "0", ";", "3", ",", "h", "4", ":",
         "2", "|", "p", "1", ":", "2", "|", "p", "2", ":", "2", ",", "1", "|",
         "t", "u", "r", "n", ":", "1" >>,
      \* a pair whose hex id is no number: "h9:1,hx:5,h4:2|p1:1,2|p2:1,2|turn:2"
      << "h", "9", ":", "1", ",", "h", "x", ":", "5", ",", "h", "4", ":", "2",
         "|", "p", "1", ":", "1", ",", "2", "|", "p", "2", ":", "1", ",", "2",
         "|", "t", "u", "r", "n", ":", "2" >>,
      \* a pair whose tile value is no number: "h9:1,h4:z,h10:3|p1:1|p2:2|turn:2"
      << "h", "9", ":", "1", ",", "h", "4", ":", "z", ",", "h", "1", "0", ":",
         "3", "|", "p", "1", ":", "1", "|", "p", "2", ":", "2", "|", "t", "u",
         "r", "n", ":", "2" >>,
      \* a pair with the tile value 0: "h9:1,h4:0|p1:1|p2:2|turn:1"
      << "h", "9", ":", "1", ",", "h", "4", ":", "0", "|", "p", "1", ":", "1",
         "|", "p", "2", ":", "2", "|", "t", "u", "r", "n", ":", "1" >>
    }

ClearBoard ==
    /\ undo = <<>> /\ made = 0
    /\ board' = clearBoard(board)
    /\ start' = clearBoard(board)
    /\ lastOp' = "clear"
    /\ UNCHANGED <<undo, prev, input, made, peak, searchVars>>

SetHexValue ==
    /\ undo = <<>> /\ made = 0
    /\ \E in \in {<<4, 5>>, <<4, 0>>, <<19, 5>>} :
          /\ board' = setHexValue(board, in[1], in[2])
          /\ start' = setHexValue(board, in[1], in[2])
    /\ lastOp' = "sethex"
    /\ UNCHANGED <<undo, prev, input, made, peak, searchVars>>

RemoveHexValue ==
    /\ undo = <<>> /\ made = 0
    /\ \E hexId \in {9, -1} :
          /\ board' = removeHexValue(board, hexId)
          /\ start' = removeHexValue(board, hexId)
    /\ lastOp' = "removehex"
    /\ UNCHANGED <<undo, prev, input, made, peak, searchVars>>

\* loadPosition(const std::string&); when std::stoi throws the exception
\* leaves loadPosition with the board as the sections before had set it
LoadPositionString ==
    /\ undo = <<>> /\ made = 0
    /\ \E str \in PositionStrings :
          /\ board' = loadPositionString(board, str)
          /\ start' = loadPositionString(board, str)
          /\ input' = str
          /\ lastOp' = IF loadPositionThrows(board, str) THEN "loadthrew"
                       ELSE "loadstring"
    /\ UNCHANGED <<undo, prev, made, peak, searchVars>>

NextSetup ==
    \/ ClearBoard
    \/ SetHexValue
    \/ RemoveHexValue
    \/ LoadPositionString
    \/ MakeMove
    \/ UnmakeMove

SpecSetup == InitPosition /\ [][NextSetup]_vars

---------------------------------------------------------------------------
(* Properties of the board *)

\* C1: makeMove(m) followed by unmakeMove(m), for a valid move m of a
\* position set up by reset() or loadPosition() and reached by play, leaves
\* occupancy, every hex value, the side to move, the hash and the multiset of
\* both bags as they were before makeMove.
C1_MakeUnmakeIdentity ==
    lastOp = "unmake" => SamePosition(board, prev)

\* an unmake that restored the position but left a bag in another order
C1_Witness ==
    /\ lastOp = "unmake"
    /\ SamePosition(board, prev)
    /\ board # prev

\* C2: in every position reached by makeMove of valid moves and matching
\* unmakeMove calls the incrementally maintained hash equals the full
\* recomputation, the XOR of the keys of all placed (hex, tile) pairs and the
\* key of the side to move.
C2_HashIsFullRecompute ==
    board.zobristHash = ZobristHash(board)

\* C3: n successive valid moves followed by unmakeMove of the same moves in
\* reverse order restore the hash and the multiset of tiles of each bag.
C3_ReverseUnmakeRestores ==
    (undo = <<>> /\ lastOp = "unmake") =>
        /\ board.zobristHash = start.zobristHash
        /\ BagOf(board.p1AvailableTiles) = BagOf(start.p1AvailableTiles)
        /\ BagOf(board.p2AvailableTiles) = BagOf(start.p2AvailableTiles)

\* two moves were outstanding at once and all moves have been unmade
C3_Witness ==
    /\ undo = <<>>
    /\ lastOp = "unmake"
    /\ peak >= 2
    /\ board.zobristHash = start.zobristHash

---------------------------------------------------------------------------
(* The search with every table probe missing *)

RECURSIVE alphaBetaNoTable(_, _, _, _)
RECURSIVE alphaBetaNoTableLoop(_, _, _, _, _, _, _)

\* the move loop of alphaBeta from moves[i] on, st holding alpha and bestScore
alphaBetaNoTableLoop(b, depth, moves, i, alpha, beta, bestScore) ==
    IF i > Len(moves) \/ alpha >= beta THEN bestScore
    ELSE \* the score of moves[i], bound once
         LET score == -alphaBetaNoTable(makeMove(b, moves[i]), depth - 1,
                                        -beta, -alpha)
         IN CHOOSE r \in {alphaBetaNoTableLoop(b, depth, moves, i + 1,
                              IF s > bestScore /\ s > alpha THEN s ELSE alpha,
                              beta,
                              IF s > bestScore THEN s ELSE bestScore)
                          : s \in {score}} : TRUE

\* alphaBeta past its leaf test, with the moves in hand
alphaBetaNoTableMoves(b, depth, alpha, beta, moves) ==
    IF moves = <<>> THEN evaluate(b)
    ELSE alphaBetaNoTableLoop(b, depth, moves, 1, alpha, beta, -INF)

\* alphaBeta with no deadline and an empty table at every probe; the order
\* of the moves is the order of getValidMoves
alphaBetaNoTable(b, depth, alpha, beta) ==
    IF depth = 0 \/ isGameOver(b) THEN evaluate(b)
    ELSE alphaBetaNoTableMoves(b, depth, alpha, beta, getValidMoves(b))

\* the score findBestMove reports for depth `depth` when no probe hits
findBestMoveNoTable(b, depth) ==
    LET moves == getValidMoves(b)
    IN IF Len(moves) = 1
       THEN -alphaBetaNoTable(makeMove(b, moves[1]), depth - 1, -INF, INF)
       ELSE alphaBetaNoTableLoop(b, depth, moves, 1, -INF, INF, -INF)

---------------------------------------------------------------------------
(* Properties of findBestMove *)

\* C4: on every return path of findBestMove (no root move, one root move,
\* iterative deepening, single depth, deadline fired or not) the board's
\* occupancy, hex values, side to move, hash and bag multisets are what they
\* were when findBestMove was called.
C4_BoardRestored ==
    pc = "done" => SamePosition(board, ghost.rootBoard)

\* a call in which alphaBeta nodes gave up on the deadline has returned, the
\* position as it was, the bags in another order
C4_Witness ==
    /\ pc = "done"
    /\ ghost.abTimedOut
    /\ SamePosition(board, ghost.rootBoard)
    /\ board # ghost.rootBoard

\* C5: iterative deepening, two or more root moves: when the deadline is
\* found while depth d >= 2 is searched, the returned bestMove, score and
\* depth are those committed at the end of depth d-1.
C5_TimeoutKeepsPreviousDepth ==
    (pc = "done" /\ cfg.useIterativeDeepening /\ ghost.timedOutDepth >= 2)
    => /\ result.timeout
       /\ result.depth = ghost.timedOutDepth - 1
       /\ result.bestMove = ghost.committed[ghost.timedOutDepth - 1].move
       /\ result.score = ghost.committed[ghost.timedOutDepth - 1].score

\* depth 3 was given up after one of its nodes returned the sentinel 0 and
\* another move than the committed one was best in it so far
C5_Witness ==
    /\ pc = "done"
    /\ cfg.useIterativeDeepening
    /\ ghost.timedOutDepth = 3
    /\ ghost.abTimedOut
    /\ result.depth = 2
    /\ root.currentBestMove # result.bestMove

\* C6: whenever an alphaBeta node of the call returned early on the
\* deadline, the result has timeout = true.
C6_AbortedSearchReportsTimeout ==
    (pc = "done" /\ ghost.abTimedOut) => result.timeout

\* C7: once an alphaBeta node has found the deadline passed, no further
\* move is made and no further node is entered in that call.
C7_NoExpansionAfterAbort ==
    [][(Searching /\ ghost.abTimedOut)
       => /\ nodesSearched' = nodesSearched
          /\ Cardinality(board'.hexOccupied) <= Cardinality(board.hexOccupied)]_vars

\* C8: when the root position has a legal move, the returned bestMove is one
\* of getValidMoves(root), on every return path.
C8_BestMoveIsValid ==
    (pc = "done" /\ getValidMoves(ghost.rootBoard) # <<>>)
    => result.bestMove \in Range(getValidMoves(ghost.rootBoard))

\* the call timed out before any depth was completed and returned a legal
\* move
C8_Witness ==
    /\ pc = "done"
    /\ result.timeout
    /\ result.depth = 0
    /\ result.bestMove \in Range(getValidMoves(ghost.rootBoard))

\* C9: an iterative-deepening call with maxDepth >= 1 that returns with
\* timeout = true has depth >= 1.
C9_TimeoutHasCompletedDepth ==
    (pc = "done" /\ cfg.useIterativeDeepening /\ cfg.maxDepth >= 1
       /\ result.timeout)
    => result.depth >= 1

\* C10: a second findBestMove on the same board object, same config, no
\* timeout in either call, returns the bestMove and score of the first.
C10_SecondCallSameResult ==
    (Len(results) = 2 /\ results[1].clean /\ results[2].clean)
    => /\ results[2].result.bestMove = results[1].result.bestMove
       /\ results[2].result.score = results[1].result.score

\* C11: a search that ran to its depth without a timeout reports the score
\* that the same search reports when every table probe misses.
C11_TableKeepsScore ==
    (/\ pc = "done"
     /\ ~result.timeout
     /\ ~ghost.deadlineHit
     /\ getValidMoves(ghost.rootBoard) # <<>>
     /\ result.depth = cfg.maxDepth \/ cfg.useIterativeDeepening
     /\ result.depth # 0 \/ ~cfg.useIterativeDeepening
                       \/ Len(getValidMoves(ghost.rootBoard)) = 1)
    => result.score = findBestMoveNoTable(ghost.rootBoard, result.depth)

\* C12: within one call, the nodes that probe the table with the same hash
\* are one position: same occupancy, values, side to move and bags.
C12_HashIdentifiesPosition ==
    \A h \in DOMAIN ghost.keyed : Cardinality(ghost.keyed[h]) = 1

\* C13: with useTranspositionTable false the table stays empty and no probe
\* hits, all through the call.
C13_TableOffIsNoOp ==
    (pc # "idle" /\ ~cfg.useTranspositionTable)
    => tt.table = <<>> /\ tt.hits = 0

\* C14: with useMoveOrdering false the root moves are searched, at every
\* depth, in the order getValidMoves returned them.
C14_RootOrderKept ==
    (pc # "idle" /\ ~cfg.useMoveOrdering /\ root.moves # <<>>)
    => root.moves = getValidMoves(ghost.rootBoard)

\* C15: with maxDepth 0 and no iterative deepening the call is one static
\* evaluation of the root: that is the score, and no node is searched.
C15_DepthZeroIsStaticEval ==
    (pc = "done" /\ ~cfg.useIterativeDeepening /\ cfg.maxDepth = 0
     /\ ~ghost.deadlineHit)
    => /\ result.score = evaluate(ghost.rootBoard)
       /\ result.nodesSearched = 0

\* C16: called on a position with no legal move, findBestMove returns the
\* sentinel move and evaluate(board), with no node searched, no timeout and
\* the board as it was.
C16_NoMovesReturnsEvaluation ==
    (pc = "done" /\ getValidMoves(ghost.rootBoard) = <<>>)
    => /\ result.bestMove = NoMove
       /\ ~MoveIsValid(result.bestMove)
       /\ result.score = evaluate(ghost.rootBoard)
       /\ result.nodesSearched = 0
       /\ ghost.totalNodes = 0
       /\ ~result.timeout
       /\ board = ghost.rootBoard

C16_Witness ==
    /\ pc = "done"
    /\ getValidMoves(ghost.rootBoard) = <<>>
    /\ result.score # 0
    /\ result.score = evaluate(board)

\* C17: a node whose probe finds an entry of less than its remaining depth
\* does not return from it, keeps its alpha and beta, and orders its moves
\* with no hint.
C17_ShallowEntryUnused ==
    [][(/\ Searching /\ stack # <<>> /\ Top.phase = "enter"
        /\ tt'.hits > tt.hits
        /\ ShallowProbe(tt, board, Top))
       => \/ /\ getValidMoves(board) = <<>>
             /\ stack' = Pop(stack)
             /\ retval' = evaluate(board)
          \/ /\ Len(stack') = Len(stack) + 1
             /\ stack'[Len(stack)].alpha = Top.alpha
             /\ stack'[Len(stack)].beta = Top.beta
             /\ stack'[Len(stack)].moves =
                    orderMoves(getValidMoves(board), NoEntry, killers,
                               history, Top.ply)]_vars

C17_Witness ==
    /\ ghost.shallowHit
    /\ pc = "done"
    /\ tt.hits > 0
    /\ ~ghost.deadlineHit

---------------------------------------------------------------------------
(* Properties of move generation and of the position string *)

\* the empty hexes with an occupied neighbour that pass the chain rule
LegalHexes ==
    {h \in Hexes : /\ ~isHexOccupied(board, h)
                   /\ hasAdjacentOccupied(board, h)
                   /\ checkChainLengthConstraint(board, h)}

\* the values in the bag of the side to move
MoverValues == Range(getAvailableTiles(board, board.currentPlayer))

\* C18: getValidMoves lists exactly the pairs of such a hex and a value of
\* the mover's bag, each once, so their number is hexes times distinct
\* values; and makeMove takes exactly one tile out of the mover's bag.
C18_MovesAreHexesTimesValues ==
    /\ \E moves \in {getValidMoves(board)}, hexes \in {LegalHexes} :
          /\ Range(moves) = {Move(h, t) : h \in hexes, t \in MoverValues}
          /\ Len(moves) = Cardinality(hexes) * Cardinality(MoverValues)
    /\ lastOp = "make"
       => \E before \in {undo[Len(undo)].before} :
             /\ Len(getAvailableTiles(board, before.currentPlayer))
                   = Len(getAvailableTiles(before, before.currentPlayer)) - 1
             /\ getAvailableTiles(board, Opponent(before.currentPlayer))
                   = getAvailableTiles(before, Opponent(before.currentPlayer))

C18_Witness ==
    /\ lastOp = "make"
    /\ LegalHexes # {}
    /\ Cardinality(MoverValues)
          < Len(getAvailableTiles(board, board.currentPlayer))
    /\ Len(getValidMoves(board))
          = Cardinality(LegalHexes) * Cardinality(MoverValues)

\* C19: every move getValidMoves returns satisfies isValidMove, on every
\* position reached by reset, loadPosition, setAvailableTiles, makeMove and
\* unmakeMove.
C19_ValidMovesAreValid ==
    \E moves \in {getValidMoves(board)} :
       \A i \in DOMAIN moves : isValidMove(board, moves[i])

\* C20: loadPosition of the string savePosition wrote gives the position
\* back, in occupancy, values, both bags in their order and side to move,
\* and savePosition of it writes the same string again.
C20_SaveLoadRoundTrip ==
    lastOp = "saveload"
    => /\ board.hexOccupied = prev.hexOccupied
       /\ board.hexValues = prev.hexValues
       /\ board.p1AvailableTiles = prev.p1AvailableTiles
       /\ board.p2AvailableTiles = prev.p2AvailableTiles
       /\ board.currentPlayer = prev.currentPlayer
       /\ savePosition(board) = savePosition(prev)

\* after a move that emptied the mover's bag, on a board with a hex above 9
C20_Witness ==
    /\ lastOp = "saveload"
    /\ Cardinality(prev.hexOccupied) > 1
    /\ prev.p1AvailableTiles = <<>>
    /\ \E h \in prev.hexOccupied : h > 9
    /\ board.p1AvailableTiles = <<>>
    /\ savePosition(board) = savePosition(prev)

---------------------------------------------------------------------------
(* Properties of puzzle setup *)

\* C21: loadPosition ends without an exception on every string, and every
\* well-formed pair h<id>:<value> of the string, also one after a malformed
\* pair or an empty section, is on the board afterwards.
C21_LoadPositionTolerant ==
    lastOp \in {"loadstring", "loadthrew"}
    => /\ lastOp = "loadstring"
       /\ \A section \in Range(GetLines(input, "|", 1, <<>>, FALSE)) :
             (section # <<>> /\ section[1] = "h")
             => \A hexPair \in Range(GetLines(section, ",", 1, <<>>, FALSE)) :
                   LET colonPos == find(hexPair, ":")
                       hexStr == substr(hexPair, 1, colonPos - 1)
                       tileStr == substr(hexPair, colonPos + 1, -1)
                   IN (/\ Len(hexPair) >= 4
                       /\ hexPair[1] = "h"
                       /\ colonPos > 1 /\ colonPos < Len(hexPair) - 1
                       /\ \A c \in Range(hexStr) \cup Range(tileStr) : IsDigit(c)
                       /\ stoi(hexStr) \in Hexes)
                      => /\ isHexOccupied(board, stoi(hexStr))
                         /\ board.hexValues[stoi(hexStr)] = stoi(tileStr)

\* C22: after any sequence of clearBoard, loadPosition, setHexValue,
\* removeHexValue, makeMove and unmakeMove a hex is in the occupancy mask if
\* and only if its value is not 0.
C22_OccupiedIffValue ==
    \A i \in Hexes : isHexOccupied(board, i) <=> board.hexValues[i] # 0

---------------------------------------------------------------------------
(* More properties of findBestMove *)

C24_SingleMoveIsSearched ==
    (pc = "done" /\ Len(getValidMoves(ghost.rootBoard)) = 1)
    => \E m \in {getValidMoves(ghost.rootBoard)[1]} :
          /\ result.bestMove = m
          /\ result.score = -alphaBetaNoTable(makeMove(ghost.rootBoard, m),
                                              cfg.maxDepth - 1, -INF, INF)
          /\ result.depth = cfg.maxDepth
          /\ SamePosition(board, ghost.rootBoard)

\* the score of the only move is not the static evaluation of the root
C24_Witness ==
    /\ pc = "done"
    /\ Len(getValidMoves(ghost.rootBoard)) = 1
    /\ result.bestMove = getValidMoves(ghost.rootBoard)[1]
    /\ result.score # evaluate(ghost.rootBoard)
    /\ result.nodesSearched > 0
    /\ SamePosition(board, ghost.rootBoard)

\* C25: the order of the moves does not change the score: two searches of
\* one position to the same depth, neither one timed out, report the same
\* score whether the root moves are ordered by orderMoves or left as
\* getValidMoves returned them.
C25_OrderKeepsScore ==
    (/\ Len(results) = 2
     /\ results[1].clean /\ results[2].clean
     /\ ~results[1].result.timeout /\ ~results[2].result.timeout)
    => results[2].result.score = results[1].result.score

---------------------------------------------------------------------------
(* Properties of the legality queries *)

\* C26: for every empty hex h, checkChainLengthConstraint(h) is true if and
\* only if L <= S + 1 where, with h taken as occupied, L is the longest run
\* of occupied hexes through h on any of the 15 lines and S the second value
\* of getFirstAndSecondChainLengths.
C26_ChainRuleIsLongestVsSecond ==
    \A h \in Hexes \ board.hexOccupied :
       \A placed \in {[board EXCEPT !.hexOccupied = @ \cup {h}]} :
       \* where h lies: line i, place p on it
       \A through \in {{ip \in (1..15) \X (1..5) :
                          /\ ip[2] <= Len(ChainLines[ip[1]])
                          /\ ChainLines[ip[1]][ip[2]] = h}} :
       LET \* the places of line that are joined to place p by occupied hexes
           run(line, p) ==
               {k \in DOMAIN line :
                   \A j \in Min(k, p)..Max(k, p) : line[j] \in placed.hexOccupied}
           L == MaxOf({Cardinality(run(ChainLines[ip[1]], ip[2])) :
                          ip \in through})
           S == getFirstAndSecondChainLengths(getAllChainLengths(placed, 1),
                                              1, 0, 0)[2]
       IN /\ Cardinality(through) = 3
          /\ checkChainLengthConstraint(board, h) <=> (L <= S + 1)

\* after a move the rule forbids a hex next to an occupied one and allows
\* another whose longest run is exactly one longer than the second longest
C26_Witness ==
    /\ lastOp = "make"
    /\ \E h \in Hexes \ board.hexOccupied :
          /\ hasAdjacentOccupied(board, h)
          /\ ~checkChainLengthConstraint(board, h)
    /\ \E h \in Hexes \ board.hexOccupied :
          /\ checkChainLengthConstraint(board, h)
          /\ getFirstAndSecondChainLengths(
                 getAllChainLengths([board EXCEPT !.hexOccupied = @ \cup {h}],
                                    1), 1, 0, 0) = <<4, 3>>

\* C27: checkChainLengthConstraint, isMoveLegal, isValidMove and
\* getValidMoves leave the board as it was: occupancy, every value, both
\* bags, the side to move and the hash, also for a hex that is occupied.
C27_QueriesLeaveBoard ==
    [][lastOp' = "query" => board' = board]_vars

\* a query was made in the middle of the play, with moves to be unmade
C27_Witness ==
    /\ lastOp = "query"
    /\ undo # <<>>
    /\ getValidMoves(board) # <<>>
    /\ board = makeMove(undo[Len(undo)].before, undo[Len(undo)].move)

---------------------------------------------------------------------------
(* Properties of the transposition table *)

\* C28: replacement is depth-preferred and nothing is evicted.  After
\* store(h, e), probe(h) finds e if h had no entry or one of depth <=
\* e.depth, and the old entry if that was deeper; every other hash keeps its
\* entry.  Unless clear() is called, the depth kept for a hash never
\* decreases and a later probe of a stored hash finds its entry.
C28_DepthPreferredNoEviction ==
    [][/\ lastOp' = "store"
          => LET h == ghost'.call[1]
                 e == ghost'.call[2]
             IN /\ probe(tt', h).found
                /\ probe(tt', h).entry =
                      IF h \notin DOMAIN tt.table \/ tt.table[h].depth <= e.depth
                      THEN e ELSE tt.table[h]
                /\ DOMAIN tt'.table = DOMAIN tt.table \cup {h}
                /\ \A g \in DOMAIN tt.table \ {h} : tt'.table[g] = tt.table[g]
       /\ lastOp' # "clear"
          => \A h \in DOMAIN tt.table :
                /\ h \in DOMAIN tt'.table
                /\ tt'.table[h].depth >= tt.table[h].depth
       /\ (lastOp' = "probe" /\ ghost'.call[1] \in DOMAIN tt.table)
          => /\ ghost'.call[2]
             /\ ghost'.call[3] = tt.table[ghost'.call[1]]
             /\ tt'.table = tt.table]_vars

\* a store has just been refused: the entry kept is deeper than the one
\* brought, and the table holds other hashes too
C28_Witness ==
    /\ lastOp = "store"
    /\ tt.table[ghost.call[1]] # ghost.call[2]
    /\ tt.table[ghost.call[1]].depth > ghost.call[2].depth
    /\ Cardinality(DOMAIN tt.table) = 3
    /\ tt.hits > 0

\* C29: every probe increments exactly one of hits and misses, hits if and
\* only if the hash has an entry, so that hits + misses is the number of
\* probes of the call; and however findBestMove returns (no move, a single
\* move, all depths done, timed out), ttHits and ttMisses of its result are
\* the counters of the table.
C29_CountersAreProbes ==
    /\ [](/\ tt.hits + tt.misses = ghost.probes
          /\ pc = "done" => /\ result.ttHits = tt.hits
                            /\ result.ttMisses = tt.misses
                            /\ result.ttHits + result.ttMisses = ghost.probes)
    /\ [][(Searching /\ ghost'.probes # ghost.probes)
          => /\ ghost'.probes = ghost.probes + 1
             /\ tt'.table = tt.table
             /\ IF board.zobristHash \in DOMAIN tt.table
                THEN tt'.hits = tt.hits + 1 /\ tt'.misses = tt.misses
                ELSE tt'.hits = tt.hits /\ tt'.misses = tt.misses + 1]_vars

\* a call with several moves returned after probes that hit and probes
\* that missed
C29_Witness ==
    /\ pc = "done"
    /\ Len(getValidMoves(ghost.rootBoard)) >= 2
    /\ result.ttHits >= 2
    /\ result.ttMisses >= 2
    /\ ghost.probes = result.ttHits + result.ttMisses

---------------------------------------------------------------------------
(* Properties of the killer moves and the history table *)

\* C30: within a call, killers and history change only at a beta cutoff of
\* the move loop of alphaBeta (alpha >= beta once the score of the move
\* just searched is taken in), and what is recorded is that move: if it is
\* not killer1[ply], killer1[ply] goes to killer2[ply] and the move becomes
\* killer1[ply]; its history entry grows by depth * depth; nothing else of
\* either table changes.
C30_KillersAndHistoryAtCutoff ==
    [][Searching
       => IF stack # <<>> /\ Top.phase = "loop"
             /\ (IF -retval > Top.bestScore /\ -retval > Top.alpha
                 THEN -retval ELSE Top.alpha) >= Top.beta
          THEN LET move == Top.moves[Top.idx]
                   ply == Top.ply
               IN /\ killers'.killer1 = [killers.killer1 EXCEPT ![ply] = move]
                  /\ killers'.killer2 =
                        [killers.killer2 EXCEPT
                           ![ply] = IF move # killers.killer1[ply]
                                    THEN killers.killer1[ply] ELSE @]
                  /\ history' =
                        [history EXCEPT ![move.hexId][move.tileValue] =
                                           @ + Top.depth * Top.depth]
                  /\ tt'.table[Top.hash].bestMove = move
          ELSE killers' = killers /\ history' = history]_vars

\* a second cutoff at one ply, by another move, has shifted the first
\* killer down, and some history entry has grown twice
C30_Witness ==
    /\ Searching
    /\ \E ply \in 0..(MAX_DEPTH - 1) :
          /\ killers.killer2[ply] # NoMove
          /\ killers.killer1[ply] # killers.killer2[ply]
    /\ \E h \in Hexes, t \in 0..9 : history[h][t] >= 2

---------------------------------------------------------------------------
(* Properties of orderMoves and evaluate *)

\* C31: what orderMoves returns is a permutation of the list it was given,
\* in non-increasing order of the ordering score, and two moves of equal
\* score are in the order they had in the list.
C31_OrderIsStableSort ==
    lastOp = "order"
    => LET moves == ghost.call[1]
           ordered == ghost.call[6]
           sc(m) == orderScore(m, ghost.call[2], ghost.call[3], ghost.call[4],
                               ghost.call[5])
           place(m) == CHOOSE i \in DOMAIN ordered : ordered[i] = m
       IN /\ Len(ordered) = Len(moves)
          /\ Range(ordered) = Range(moves)
          /\ \A i, j \in DOMAIN ordered :
                i < j => sc(ordered[i]) >= sc(ordered[j])
          /\ \A i, j \in DOMAIN moves :
                (i < j /\ sc(moves[i]) = sc(moves[j]))
                => place(moves[i]) < place(moves[j])

\* C32: evaluate of a position is minus evaluate of the position with only
\* the side to move flipped; it is the score of the side to move minus the
\* score of the opponent; and the leaf of the search that returns it leaves
\* the board as it was.
C32_EvaluateIsAntisymmetric ==
    /\ [](\A flipped \in {[board EXCEPT !.currentPlayer =
                                 IF @ = PLAYER_1 THEN PLAYER_2 ELSE PLAYER_1]} :
            /\ evaluate(board) = -evaluate(flipped)
            /\ evaluate(board) = getScore(board, board.currentPlayer)
                                 - getScore(board, flipped.currentPlayer))
    /\ [][(/\ Searching /\ stack # <<>> /\ Top.phase = "enter"
           /\ Top.depth = 0 \/ isGameOver(board)
           /\ ~ghost'.abTimedOut)
          => /\ retval' = evaluate(board)
             /\ board' = board]_vars

\* a leaf of the search has just returned its evaluation, which is not 0,
\* with player 2 to move
C32_Witness ==
    /\ Searching
    /\ stack # <<>>
    /\ Top.phase = "loop"
    /\ board.currentPlayer = PLAYER_2
    /\ isGameOver(board)
    /\ retval = evaluate(board)
    /\ retval # 0
    /\ getScore(board, PLAYER_1) # 0

---------------------------------------------------------------------------
(* Termination of findBestMove *)

\* C33: a call of findBestMove returns, whatever the position and the
\* config, also when maxDepth is 0 and alphaBeta starts from depth -1 and
\* never meets depth 0, and whether or not the deadline is met: the
\* activations of alphaBeta on the stack are never more than the hexes
\* occupied since the call began.
C33_FindBestMoveTerminates ==
    /\ (Searching ~> pc = "done")
    /\ [](Searching
          => Len(stack) <= Cardinality(board.hexOccupied)
                           - Cardinality(ghost.rootBoard.hexOccupied))

\* a search from depth -1 has returned after going down to the full board,
\* four moves below the root, with no deadline met
C33_Witness ==
    /\ pc = "done"
    /\ cfg.maxDepth = 0
    /\ ~cfg.useIterativeDeepening
    /\ cfg.timeLimitMs = DefaultTimeLimitMs
    /\ Cardinality(ghost.rootBoard.hexOccupied) = NUM_HEXES - 4
    /\ Len(getValidMoves(ghost.rootBoard)) >= 2
    /\ ghost.totalNodes > 50
    /\ ~result.timeout

====
